---- MODULE Spec2Model ----
(***************************************************************************)
(* A model of vdflex's KeyValues encoder: the PrettyFormatter              *)
(* (src/ser/formatter.rs), the serde Serializer that drives it             *)
(* (src/ser/serializer.rs) and the decode entry points (src/de.rs).        *)
(*                                                                         *)
(* Text is a sequence of one-character strings.  A value of the serde data *)
(* model is a record [t |-> tag, v |-> payload].                           *)
(***************************************************************************)
EXTENDS Integers, Sequences, FiniteSets, TLC

\* the encoder: the options, the value handed to it, the serializer, and where
\* the top-level call stands
VARIABLES opts, value, ser, pc
\* a formatter driven directly: the formatter, its writer, the number of calls
\* made, the last call and the formatter and writer it started from
VARIABLES fmt, out, calls, lastOp, before
\* the string argument of the last call, and a second formatter and writer,
\* of the other brace style, that every call is made on as well
VARIABLES arg, twin

\* ValueVisitor::visit_map: the entries its MapAccess has yet to give, the
\* Object it builds, and the entries it has been given
VARIABLES map, obj, read

\* encode calls running side by side, each on a Serializer of its own
VARIABLES enc

\* the writes the two string writers make for one string: the texts handed to
\* write_all by write_string_element, and the formatter calls of the
\* serialize_str of ser.rs
VARIABLES writes

vars == <<opts, value, ser, pc, fmt, out, calls, lastOp, before, arg, twin,
          map, obj, read, enc, writes>>

(***************************************************************************)
(* Bounds of the model.                                                    *)
(***************************************************************************)
\* longest root-level string that is encoded
MaxStrLen == 2
\* longest sequence that is encoded
MaxSeqLen == 2
\* most formatter calls made directly in one run
MaxCalls == 11
MaxRoom == 8
MaxEntries == 3
MaxEncoders == 2

(***************************************************************************)
(* Characters and text.                                                    *)
(***************************************************************************)
QUOTE == "\""
BACKSLASH == "\\"
TAB == "\t"
NEWLINE == "\n"
SPACE == " "

\* the characters the encoded strings are drawn from
Alphabet == {QUOTE, BACKSLASH, TAB, NEWLINE, SPACE, "{", "}", "[", "/", "a"}

\* char::is_whitespace, on the alphabet
is_whitespace(c) == c \in {SPACE, TAB, NEWLINE}

RECURSIVE SeqsUpTo(_, _)
SeqsUpTo(S, n) ==
    IF n = 0 THEN {<<>>}
    ELSE LET shorter == SeqsUpTo(S, n - 1)
         IN  shorter \cup {Append(q, x) : q \in shorter, x \in S}

RECURSIVE Repeat(_, _)
Repeat(text, n) == IF n <= 0 THEN <<>> ELSE text \o Repeat(text, n - 1)

RECURSIVE Count(_, _)
Count(text, c) ==
    IF text = <<>> THEN 0
    ELSE (IF Head(text) = c THEN 1 ELSE 0) + Count(Tail(text), c)

(***************************************************************************)
(* Formatter options (formatter.rs, FormatOpts).                           *)
(***************************************************************************)
BraceStyle == {"Allman", "KAndR"}
Quoting == {"Always", "WhenRequired"}

\* FormatOpts::default()
DefaultOpts ==
    [indent |-> <<SPACE, SPACE, SPACE, SPACE>>,
     separator |-> <<SPACE>>,
     brace_style |-> "Allman",
     quote_keys |-> "Always",
     quote_macro_keys |-> "Always",
     quote_values |-> "Always"]

\* the separators the model is run under: the default and that of simple_yaml
Separators == {<<SPACE>>, <<":", SPACE>>}

\* the options the model is run under
FormatOpts ==
    {[DefaultOpts EXCEPT !.separator = sep, !.brace_style = b, !.quote_keys = qk,
                         !.quote_macro_keys = qm, !.quote_values = qv] :
        sep \in Separators, b \in BraceStyle,
        qk \in Quoting, qm \in Quoting, qv \in Quoting}

(***************************************************************************)
(* PrettyFormatter.  A formatter is [opts, elements, indent_level] and two *)
(* flags: panic records that an expect() failed, which unwinds the thread; *)
(* assert_failed records that a debug_assert failed, which panics in a     *)
(* debug build and is skipped in a release build.  Every operation takes   *)
(* the formatter f and the writer w and returns the pair [f, w] after the  *)
(* call.                                                                   *)
(***************************************************************************)
ElementKind == {"Object", "KeyValue", "Key", "Value"}

\* PrettyFormatter::with_opts
with_opts(o) ==
    [opts |-> o, elements |-> <<>>, indent_level |-> -1,
     panic |-> FALSE, assert_failed |-> FALSE]

\* Vec::last as an Option: "None" on the empty stack
last(elements) == IF elements = <<>> THEN "None" ELSE elements[Len(elements)]

push_element(f, kind) ==
    [f EXCEPT !.elements = Append(@, kind),
              !.indent_level = IF kind = "Object" THEN @ + 1 ELSE @]

pop_element(f) ==
    IF f.elements = <<>> THEN [f EXCEPT !.panic = TRUE]
    ELSE [f EXCEPT !.elements = SubSeq(@, 1, Len(@) - 1),
                   !.indent_level = IF last(f.elements) = "Object" THEN @ - 1 ELSE @]

\* write_indent with the loop for _ in 0..=indent_level
write_indent_inclusive(f, w) ==
    [f |-> f, w |-> w \o Repeat(f.opts.indent, f.indent_level + 1)]

\* for _ in 0..indent_level: nothing is written when indent_level <= 0
write_indent(f, w) == [f |-> f, w |-> w \o Repeat(f.opts.indent, f.indent_level)]

\* debug_assert!(cond)
debug_assert(f, cond) == IF cond THEN f ELSE [f EXCEPT !.assert_failed = TRUE]

\* the characters write_string_element escapes
EscapedChars == {TAB, NEWLINE, BACKSLASH, QUOTE}

\* the escape written for a matched character
escaped(c) ==
    CASE c = TAB -> <<BACKSLASH, "t">>
      [] c = NEWLINE -> <<BACKSLASH, "n">>
      [] c = BACKSLASH -> <<BACKSLASH, BACKSLASH>>
      [] c = QUOTE -> <<BACKSLASH, QUOTE>>

\* whether write_string_element surrounds s with quotes
need_quotes(s, quoting) ==
    CASE quoting = "Always" -> TRUE
      [] quoting = "WhenRequired" ->
            \/ (s # <<>> /\ s[1] = "[")
            \/ \E i \in 1..Len(s) : s[i] \in {"{", "}", QUOTE} \/ is_whitespace(s[i])

(* The fragment-escape loop with start left on the matched character       *)
(* instead of moved past it: the character is written again, raw, at the   *)
(* head of the next fragment.                                              *)
RECURSIVE fragment_writes_stale_start(_, _, _)
fragment_writes_stale_start(s, start, current) ==
    IF current > Len(s)
    THEN IF start <= Len(s) THEN <<SubSeq(s, start, Len(s))>> ELSE <<>>
    ELSE IF s[current] \in EscapedChars
         THEN (IF start # current THEN <<SubSeq(s, start, current - 1)>> ELSE <<>>)
              \o <<escaped(s[current])>>
              \o fragment_writes_stale_start(s, current, current + 1)
         ELSE fragment_writes_stale_start(s, start, current + 1)

(* The fragment-escape loop writing every character that is not escaped   *)
(* as a fragment of its own.                                               *)
RECURSIVE fragment_writes_per_char(_, _, _)
fragment_writes_per_char(s, start, current) ==
    IF current > Len(s) THEN <<>>
    ELSE <<IF s[current] \in EscapedChars THEN escaped(s[current]) ELSE <<s[current]>>>>
         \o fragment_writes_per_char(s, start, current + 1)

(* The fragment-escape loop of write_string_element and its trailing       *)
(* fragment, as the sequence of texts handed to write_all.  Positions are  *)
(* 1-based: start is the first character not yet written, current the      *)
(* position match_indices looks at next.                                   *)
RECURSIVE fragment_writes(_, _, _)
fragment_writes(s, start, current) ==
    IF current > Len(s)
    THEN IF start <= Len(s) THEN <<SubSeq(s, start, Len(s))>> ELSE <<>>
    ELSE IF s[current] \in EscapedChars
         THEN (IF start # current THEN <<SubSeq(s, start, current - 1)>> ELSE <<>>)
              \o <<escaped(s[current])>>
              \o fragment_writes(s, current + 1, current + 1)
         ELSE fragment_writes(s, start, current + 1)

RECURSIVE Flatten(_)
Flatten(texts) == IF texts = <<>> THEN <<>> ELSE Head(texts) \o Flatten(Tail(texts))

\* write_string_element that escapes only the strings it quotes
write_string_element_raw_unquoted(w, s, quoting) ==
    IF need_quotes(s, quoting)
    THEN w \o <<QUOTE>> \o Flatten(fragment_writes(s, 1, 1)) \o <<QUOTE>>
    ELSE w \o s

\* PrettyFormatter::write_string_element: the writer after the call
write_string_element(w, s, quoting) ==
    LET q == IF need_quotes(s, quoting) THEN <<QUOTE>> ELSE <<>>
    IN  w \o q \o Flatten(fragment_writes(s, 1, 1)) \o q

MacroInclude == <<"#", "i", "n", "c", "l", "u", "d", "e">>
MacroBase == <<"#", "b", "a", "s", "e">>

\* begin_object that indents its Allman brace after pushing the object
begin_object_indent_after_push(f, w) ==
    IF f.elements = <<>> THEN [f |-> push_element(f, "Object"), w |-> w]
    ELSE IF f.opts.brace_style = "Allman"
         THEN [f |-> push_element(f, "Object"),
               w |-> write_indent(push_element(f, "Object"), w \o <<NEWLINE>>).w
                     \o <<"{">> \o <<NEWLINE>>]
         ELSE [f |-> push_element(f, "Object"),
               w |-> w \o <<SPACE, "{">> \o <<NEWLINE>>]

\* begin_object without its early return for the root object
begin_object_always_braced(f, w) ==
    IF f.opts.brace_style = "Allman"
    THEN [f |-> push_element(f, "Object"),
          w |-> write_indent(f, w \o <<NEWLINE>>).w \o <<"{">> \o <<NEWLINE>>]
    ELSE [f |-> push_element(f, "Object"),
          w |-> w \o <<SPACE, "{">> \o <<NEWLINE>>]

\* end_object without its test for the root object
end_object_always_braced(f, w) ==
    LET f1 == pop_element(f)
        f2 == debug_assert(f1, last(f.elements) = "Object")
    IN  IF f1.panic THEN [f |-> f1, w |-> w]
        ELSE [f |-> f2, w |-> write_indent(f2, w).w \o <<"}">>]

begin_object(f, w) ==
    IF f.elements = <<>> THEN [f |-> push_element(f, "Object"), w |-> w]
    ELSE IF f.opts.brace_style = "Allman"
         THEN [f |-> push_element(f, "Object"),
               w |-> write_indent(f, w \o <<NEWLINE>>).w \o <<"{">> \o <<NEWLINE>>]
         ELSE [f |-> push_element(f, "Object"),
               w |-> w \o <<SPACE, "{">> \o <<NEWLINE>>]

end_object(f, w) ==
    LET f1 == pop_element(f)
        f2 == debug_assert(f1, last(f.elements) = "Object")
    IN  IF f1.panic THEN [f |-> f1, w |-> w]
        ELSE IF f2.elements # <<>>
             THEN [f |-> f2, w |-> write_indent(f2, w).w \o <<"}">>]
             ELSE [f |-> f2, w |-> w]

begin_key(f, w) ==
    write_indent(push_element(push_element(f, "KeyValue"), "Key"), w)

end_key(f, w) ==
    LET f1 == pop_element(f)
        f2 == debug_assert(f1, last(f.elements) = "Key")
        f3 == debug_assert(f2, last(f2.elements) = "KeyValue")
    IN  IF f1.panic THEN [f |-> f1, w |-> w] ELSE [f |-> f3, w |-> w]

begin_value(f, w) ==
    [f |-> push_element(debug_assert(f, last(f.elements) = "KeyValue"), "Value"),
     w |-> w]

end_value(f, w) ==
    LET f1 == pop_element(f)
        f2 == debug_assert(f1, last(f.elements) = "Value")
        f3 == pop_element(f2)
        f4 == debug_assert(f3, last(f2.elements) = "KeyValue")
    IN  IF f1.panic THEN [f |-> f1, w |-> w]
        ELSE IF f3.panic THEN [f |-> f3, w |-> w]
        ELSE [f |-> f4, w |-> w \o <<NEWLINE>>]

\* a choice of policy that gives every key quote_keys
string_quoting_no_macros(f, s) ==
    IF last(f.elements) = "Key" THEN f.opts.quote_keys ELSE f.opts.quote_values

\* the quoting policy write_string picks for s
string_quoting(f, s) ==
    CASE last(f.elements) = "Key" ->
            IF s = MacroInclude \/ s = MacroBase
            THEN f.opts.quote_macro_keys ELSE f.opts.quote_keys
      [] last(f.elements) = "Value" -> f.opts.quote_values
      [] OTHER -> f.opts.quote_values

\* write_string that writes the separator wherever the string is written
write_string_always_separated(f, w, s) ==
    LET f1 == debug_assert(f, last(f.elements) # "Object")
        f2 == debug_assert(f1, last(f.elements) # "KeyValue")
    IN  [f |-> f2,
         w |-> write_string_element(w \o f.opts.separator, s, string_quoting(f, s))]

write_string(f, w, s) ==
    LET f1 == debug_assert(f, last(f.elements) # "Object")
        f2 == debug_assert(f1, last(f.elements) # "KeyValue")
        w1 == IF last(f.elements) = "Value" THEN w \o f.opts.separator ELSE w
    IN  [f |-> f2, w |-> write_string_element(w1, s, string_quoting(f, s))]

\* write_conditional that writes its tag as write_string writes a key
write_conditional_as_key(f, w, condition) ==
    [f |-> debug_assert(f, last(f.elements) = "Key"),
     w |-> write_string_element(w \o <<SPACE, "[">>, condition, f.opts.quote_keys)
           \o <<"]">>]

write_conditional(f, w, condition) ==
    [f |-> debug_assert(f, last(f.elements) = "Key"),
     w |-> w \o <<SPACE, "[">> \o condition \o <<"]">>]

write_line_comment(f, w, comment) ==
    LET f1 == debug_assert(f, last(f.elements) # "KeyValue")
        f2 == debug_assert(f1, last(f.elements) # "Key")
        f3 == debug_assert(f2, last(f.elements) # "Value")
    IN  [f |-> f3,
         w |-> write_indent(f3, w).w \o <<"/", "/", SPACE>> \o comment \o <<NEWLINE>>]

(***************************************************************************)
(* Values of the serde data model, as the Serialize implementations of the *)
(* encoded types present them to a serializer.                             *)
(***************************************************************************)
Str(s) == [t |-> "Str", v |-> s]
Bool(b) == [t |-> "Bool", v |-> b]
Integer(n) == [t |-> "Int", v |-> n]
Char(c) == [t |-> "Char", v |-> c]
None == [t |-> "None", v |-> <<>>]
Unit == [t |-> "Unit", v |-> <<>>]
UnitStruct == [t |-> "UnitStruct", v |-> <<>>]
Some(x) == [t |-> "Some", v |-> x]
NewtypeStruct(x) == [t |-> "NewtypeStruct", v |-> x]
UnitVariant(name) == [t |-> "UnitVariant", v |-> name]
NewtypeVariant(name, x) == [t |-> "NewtypeVariant", v |-> [variant |-> name, value |-> x]]
SeqOf(items) == [t |-> "Seq", v |-> items]
Tuple(items) == [t |-> "Tuple", v |-> items]
TupleStruct(items) == [t |-> "TupleStruct", v |-> items]
TupleVariant(name, items) == [t |-> "TupleVariant", v |-> [variant |-> name, items |-> items]]
Struct(fields) == [t |-> "Struct", v |-> fields]
StructVariant(name, fields) == [t |-> "StructVariant", v |-> [variant |-> name, fields |-> fields]]
Map(entries) == [t |-> "Map", v |-> entries]
Bytes == [t |-> "Bytes", v |-> <<>>]
I128 == [t |-> "I128", v |-> <<>>]
U128 == [t |-> "U128", v |-> <<>>]
Float(finite, text) == [t |-> "Float", v |-> [finite |-> finite, text |-> text]]

\* one struct field, one map entry
Field(k, x) == [key |-> k, value |-> x]

\* the decimal digits of n >= 0
RECURSIVE digits(_)
digits(n) ==
    LET d == <<"0", "1", "2", "3", "4", "5", "6", "7", "8", "9">>[(n % 10) + 1]
    IN  IF n < 10 THEN <<d>> ELSE Append(digits(n \div 10), d)

\* i64::to_string / u64::to_string
int_to_string(n) == IF n < 0 THEN <<"-">> \o digits(-n) ELSE digits(n)

\* f64::to_string of the non-finite values
NaN == <<"N", "a", "N">>
Inf == <<"i", "n", "f">>
NegInf == <<"-", "i", "n", "f">>

\* the f64 that Error::NonFiniteFloat carries
carried(v) ==
    CASE v.text = NaN -> "NaN"
      [] v.text = Inf -> "inf"
      [] v.text = NegInf -> "-inf"
      [] OTHER -> "finite"

(***************************************************************************)
(* Serializer (serializer.rs).  A serializer is [writer, formatter,        *)
(* key_stack] and err, the Result of the call in progress: once err is not *)
(* Ok every `?` returns, so every later step leaves the serializer alone.  *)
(* The writer is the text its sink has received; room is what the sink     *)
(* still accepts counted from its start: -1 for a sink that grows, as a    *)
(* Vec<u8> does, and n for a sink of n bytes, as a &mut [u8] is, whose     *)
(* write_all copies what fits and fails on the rest.  element_keys is a    *)
(* history: the key each call of serialize_element has read off the top of *)
(* key_stack, in the order of the calls.                                   *)
(***************************************************************************)
Ok == [kind |-> "Ok", desc |-> ""]
Err(kind, desc) == [kind |-> kind, desc |-> desc]

\* Serializer::new
new(writer, formatter) ==
    [writer |-> writer, formatter |-> formatter, key_stack |-> <<>>, err |-> Ok,
     room |-> -1, element_keys |-> <<>>]

\* the serializer over a sink of n bytes
with_room(s, n) == [s EXCEPT !.room = n]

\* the sink of s cannot take all of the text w
overflows(s, w) == s.room >= 0 /\ Len(w) > s.room

\* Error::Io of the failed write_all
IoError == Err("Io", "failed to write whole buffer")

\* a `?` that goes on whatever the Result is
ok_whatever_err(s) == s.err \in {Ok, s.err}

ok(s) == s.err = Ok

\* return Err(e)
fail(s, e) == IF ok(s) THEN [s EXCEPT !.err = e] ELSE s

\* self.formatter.<op>(&mut self.writer).map_err(|e| Error::Io(e))?
call(s, fw) ==
    IF ~fw.f.panic /\ overflows(s, fw.w)
    THEN [s EXCEPT !.formatter = fw.f, !.writer = SubSeq(fw.w, 1, s.room),
                   !.err = IoError]
    ELSE [s EXCEPT !.formatter = fw.f, !.writer = fw.w,
                   !.err = IF fw.f.panic
                           THEN Err("Panic", "attempted to pop root element") ELSE @]

\* begin_object pushes the object before its last write only: a write that
\* fails earlier returns with the element stack as it was
fmt_begin_object(s) ==
    IF ok(s)
    THEN LET fw == begin_object(s.formatter, s.writer)
         IN  IF overflows(s, SubSeq(fw.w, 1, Len(fw.w) - 1))
             THEN call(s, [f |-> s.formatter, w |-> fw.w])
             ELSE call(s, fw)
    ELSE s
fmt_end_object(s) == IF ok(s) THEN call(s, end_object(s.formatter, s.writer)) ELSE s
fmt_begin_key(s) == IF ok(s) THEN call(s, begin_key(s.formatter, s.writer)) ELSE s
fmt_end_key(s) == IF ok(s) THEN call(s, end_key(s.formatter, s.writer)) ELSE s
fmt_begin_value(s) == IF ok(s) THEN call(s, begin_value(s.formatter, s.writer)) ELSE s
fmt_end_value(s) == IF ok(s) THEN call(s, end_value(s.formatter, s.writer)) ELSE s
fmt_write_string(s, v) == IF ok(s) THEN call(s, write_string(s.formatter, s.writer, v)) ELSE s

\* self.key_stack.push(key)
key_push(s, key) == IF ok(s) THEN [s EXCEPT !.key_stack = Append(@, key)] ELSE s

\* a key_stack.pop() that takes nothing off
key_pop_nothing(s) == IF ok(s) THEN s ELSE s

\* self.key_stack.pop(): None on the empty stack, which the callers drop
key_pop(s) ==
    IF ok(s) /\ s.key_stack # <<>>
    THEN [s EXCEPT !.key_stack = SubSeq(@, 1, Len(@) - 1)] ELSE s

serialize_str(s, v) == fmt_write_string(s, v)

serialize_bool(s, v) == serialize_str(s, IF v THEN <<"1">> ELSE <<"0">>)

\* serialize_char (serialize_as_str_impl): v.to_string()
serialize_char(s, v) == serialize_str(s, <<v>>)

\* serialize_i8 .. serialize_u64 (serialize_as_str_impl)
serialize_int(s, v) == serialize_str(s, int_to_string(v))

serialize_i128(s) == fail(s, Err("UnsupportedType", "i128"))

serialize_u128(s) == fail(s, Err("UnsupportedType", "u128"))

\* serialize_f32 / serialize_f64 without the is_finite test
serialize_float_unchecked(s, v) == serialize_str(s, v.text)

\* serialize_f32 / serialize_f64; v.text is v.to_string()
serialize_float(s, v) ==
    IF v.finite THEN serialize_str(s, v.text) ELSE fail(s, Err("NonFiniteFloat", carried(v)))

serialize_bytes(s) == fail(s, Err("UnsupportedType", "bytes"))

serialize_none(s) == serialize_str(s, <<>>)

\* serialize_unit that returns Ok(()) at once
serialize_unit_silent(s) == s

serialize_unit(s) == serialize_none(s)

serialize_unit_struct(s) == serialize_unit(s)

serialize_unit_variant(s, variant) == serialize_str(s, variant)

\* serialize_seq / serialize_tuple / serialize_tuple_struct: Ok(self)
serialize_seq(s) == s

serialize_tuple_variant(s, variant) == fmt_begin_object(key_push(s, variant))

serialize_map(s) == fmt_begin_object(s)

serialize_struct(s) == fmt_begin_object(s)

serialize_struct_variant(s, variant) ==
    LET s1 == key_push(fmt_begin_object(s), variant)
        s2 == fmt_end_key(fmt_write_string(fmt_begin_key(s1), variant))
    IN  fmt_begin_object(fmt_begin_value(s2))

\* SerializeSeq::end, SerializeTuple::end, SerializeTupleStruct::end
seq_end(s) == s

\* SerializeTupleVariant::end without its end_object
tuple_variant_end_unclosed(s) == key_pop(s)

\* SerializeTupleVariant::end
tuple_variant_end(s) == key_pop(fmt_end_object(s))

\* SerializeMap::end
map_end(s) == fmt_end_object(s)

\* SerializeStruct::end
struct_end(s) == fmt_end_object(s)

\* SerializeStructVariant::end
struct_variant_end(s) == fmt_end_object(key_pop(fmt_end_value(fmt_end_object(s))))

RECURSIVE Serialize(_, _)
RECURSIVE SerializeKey(_, _)

\* serialize_newtype_variant without its begin_object and end_object
serialize_newtype_variant_unbraced(s, variant, x) ==
    LET s1 == key_push(s, variant)
        s2 == fmt_end_key(fmt_write_string(fmt_begin_key(s1), variant))
        s3 == fmt_end_value(Serialize(fmt_begin_value(s2), x))
    IN  key_pop(s3)

\* serialize_newtype_variant as serialize_newtype_struct is: the wrapped value
serialize_newtype_variant_transparent(s, variant, x) == Serialize(s, x)

\* serde::Serializer::serialize_newtype_variant
serialize_newtype_variant(s, variant, x) ==
    LET s1 == key_push(fmt_begin_object(s), variant)
        s2 == fmt_end_key(fmt_write_string(fmt_begin_key(s1), variant))
        s3 == fmt_end_value(Serialize(fmt_begin_value(s2), x))
    IN  fmt_end_object(key_pop(s3))

\* SerializeSeq::serialize_element, which SerializeTuple::serialize_element,
\* SerializeTupleStruct::serialize_field and SerializeTupleVariant::serialize_field call
serialize_element(s, x) ==
    IF ~ok(s) THEN s
    ELSE IF s.key_stack = <<>> THEN fail(s, Err("RootLevelSequence", ""))
    ELSE LET key == s.key_stack[Len(s.key_stack)]
             s0 == [s EXCEPT !.element_keys = Append(@, key)]
             s1 == fmt_end_key(fmt_write_string(fmt_begin_key(s0), key))
         IN  fmt_end_value(Serialize(fmt_begin_value(s1), x))

\* MapKeySerializer::serialize_str without its end_key
key_serialize_str_unended(s, v) ==
    serialize_str(fmt_begin_key(key_push(s, v)), v)

\* MapKeySerializer::serialize_str
key_serialize_str(s, v) ==
    fmt_end_key(serialize_str(fmt_begin_key(key_push(s, v)), v))

\* SerializeMap::serialize_key
serialize_key(s, k) == SerializeKey(s, k)

\* SerializeMap::serialize_value
serialize_value(s, x) ==
    key_pop(fmt_end_value(Serialize(fmt_begin_value(s), x)))

\* serialize_field without its key_stack.pop()
serialize_field_key_kept(s, key, x) ==
    LET s1 == key_push(s, key)
        s2 == fmt_end_key(fmt_write_string(fmt_begin_key(s1), key))
    IN  fmt_end_value(Serialize(fmt_begin_value(s2), x))

\* SerializeStruct::serialize_field, which SerializeStructVariant::serialize_field calls
serialize_field(s, key, x) ==
    LET s1 == key_push(s, key)
        s2 == fmt_end_key(fmt_write_string(fmt_begin_key(s1), key))
        s3 == fmt_end_value(Serialize(fmt_begin_value(s2), x))
    IN  key_pop(s3)

\* the element loop of a sequence's Serialize implementation
RECURSIVE serialize_elements(_, _)
serialize_elements(s, items) ==
    IF items = <<>> \/ ~ok(s) THEN s
    ELSE serialize_elements(serialize_element(s, Head(items)), Tail(items))

\* the field loop of a struct's Serialize implementation
RECURSIVE serialize_fields(_, _)
serialize_fields(s, fields) ==
    IF fields = <<>> \/ ~ok(s) THEN s
    ELSE serialize_fields(serialize_field(s, Head(fields).key, Head(fields).value),
                          Tail(fields))

\* the entry loop of a map's Serialize implementation: serialize_entry is
\* serialize_key, then serialize_value
RECURSIVE serialize_entries(_, _)
serialize_entries(s, entries) ==
    IF entries = <<>> \/ ~ok(s) THEN s
    ELSE serialize_entries(
            serialize_value(serialize_key(s, Head(entries).key), Head(entries).value),
            Tail(entries))

\* a MapKeySerializer that takes strings only
SerializeKey_strings_only(s, k) ==
    IF ~ok(s) THEN s
    ELSE IF k.t = "Str" THEN key_serialize_str(s, k.v)
    ELSE fail(s, Err("KeyMustBeAString", "not a string"))

\* key.serialize(MapKeySerializer { serializer: self })
SerializeKey(s, k) ==
    IF ~ok(s) THEN s
    ELSE CASE k.t = "Str" -> key_serialize_str(s, k.v)
           [] k.t = "Bool" -> key_serialize_str(s, IF k.v THEN <<"1">> ELSE <<"0">>)
           [] k.t = "Int" -> key_serialize_str(s, int_to_string(k.v))
           [] k.t = "Char" -> key_serialize_str(s, <<k.v>>)
           [] k.t = "I128" -> fail(s, Err("UnsupportedType", "i128"))
           [] k.t = "U128" -> fail(s, Err("UnsupportedType", "u128"))
           [] k.t = "Float" ->
                IF ~k.v.finite THEN fail(s, Err("NonFiniteFloat", carried(k.v)))
                ELSE key_serialize_str(s, k.v.text)
           [] k.t = "Bytes" -> fail(s, Err("KeyMustBeAString", "bytes"))
           [] k.t = "None" -> fail(s, Err("KeyMustBeAString", "bytes"))
           [] k.t = "Some" -> SerializeKey(s, k.v)
           [] k.t = "Unit" -> fail(s, Err("KeyMustBeAString", "unit"))
           [] k.t = "UnitStruct" -> fail(s, Err("KeyMustBeAString", "unit struct"))
           [] k.t = "UnitVariant" -> fail(s, Err("KeyMustBeAString", "unit variant"))
           [] k.t = "NewtypeStruct" -> SerializeKey(s, k.v)
           [] k.t = "NewtypeVariant" -> fail(s, Err("KeyMustBeAString", "newtype variant"))
           [] k.t = "Seq" -> fail(s, Err("KeyMustBeAString", "sequence"))
           [] k.t = "Tuple" -> fail(s, Err("KeyMustBeAString", "tuple"))
           [] k.t = "TupleStruct" -> fail(s, Err("KeyMustBeAString", "tuple struct"))
           [] k.t = "TupleVariant" -> fail(s, Err("KeyMustBeAString", "tuple variant"))
           [] k.t = "Map" -> fail(s, Err("KeyMustBeAString", "map"))
           [] k.t = "Struct" -> fail(s, Err("KeyMustBeAString", "struct"))
           [] k.t = "StructVariant" -> fail(s, Err("KeyMustBeAString", "struct variant"))

\* value.serialize(&mut *self): the call each shape of value makes
Serialize(s, x) ==
    IF ~ok(s) THEN s
    ELSE CASE x.t = "Str" -> serialize_str(s, x.v)
           [] x.t = "Bool" -> serialize_bool(s, x.v)
           [] x.t = "Int" -> serialize_int(s, x.v)
           [] x.t = "Char" -> serialize_char(s, x.v)
           [] x.t = "I128" -> serialize_i128(s)
           [] x.t = "U128" -> serialize_u128(s)
           [] x.t = "Float" -> serialize_float(s, x.v)
           [] x.t = "Bytes" -> serialize_bytes(s)
           [] x.t = "None" -> serialize_none(s)
           [] x.t = "Some" -> Serialize(s, x.v)
           [] x.t = "Unit" -> serialize_unit(s)
           [] x.t = "UnitStruct" -> serialize_unit_struct(s)
           [] x.t = "UnitVariant" -> serialize_unit_variant(s, x.v)
           [] x.t = "NewtypeStruct" -> Serialize(s, x.v)
           [] x.t = "NewtypeVariant" -> serialize_newtype_variant(s, x.v.variant, x.v.value)
           [] x.t \in {"Seq", "Tuple", "TupleStruct"} ->
                seq_end(serialize_elements(serialize_seq(s), x.v))
           [] x.t = "TupleVariant" ->
                tuple_variant_end(
                    serialize_elements(serialize_tuple_variant(s, x.v.variant), x.v.items))
           [] x.t = "Map" -> map_end(serialize_entries(serialize_map(s), x.v))
           [] x.t = "Struct" -> struct_end(serialize_fields(serialize_struct(s), x.v))
           [] x.t = "StructVariant" ->
                struct_variant_end(
                    serialize_fields(serialize_struct_variant(s, x.v.variant), x.v.fields))

(***************************************************************************)
(* Decoding (de.rs).  A result is [outcome, err, key, value].              *)
(***************************************************************************)
Panicked(msg) ==
    [outcome |-> "Panic", err |-> Err("Panic", msg), key |-> <<>>, value |-> None]
Failed(e) == [outcome |-> "Err", err |-> e, key |-> <<>>, value |-> None]
Decoded(k, x) == [outcome |-> "Ok", err |-> Ok, key |-> k, value |-> x]

\* RootKind
Flattened == [t |-> "Flattened", key |-> <<>>]
Nested(root_key) == [t |-> "Nested", key |-> root_key]

\* from_str_nested: todo!()
from_str_nested(s) == Panicked("not yet implemented")

\* from_str_flat: todo!()
from_str_flat(s) == Panicked("not yet implemented")

from_str(kind, s) ==
    IF kind.t = "Nested"
    THEN LET r == from_str_nested(s)
         IN  IF r.outcome # "Ok" THEN r
             ELSE IF r.key # kind.key THEN Failed(Err("UnsupportedKey", "key"))
             ELSE Decoded(<<>>, r.value)
    ELSE from_str_flat(s)

(***************************************************************************)
(* The values and options the encoder is run on.                           *)
(***************************************************************************)
K1 == <<"k">>
K2 == <<"j">>
A1 == <<"a">>

RootStrings == SeqsUpTo(Alphabet, MaxStrLen)

Leaves == {Str(<<>>), Str(A1), None}

Elems ==
    Leaves \cup {SeqOf(<<>>), SeqOf(<<Str(A1)>>), SeqOf(<<SeqOf(<<Unit>>)>>),
                 Struct(<<>>), Struct(<<Field(K2, Str(A1))>>)}

Seqs == {SeqOf(q) : q \in SeqsUpTo(Elems, MaxSeqLen)}

FieldValues ==
    Leaves \cup Seqs
    \cup {Unit, Some(Str(A1)), Struct(<<>>), Map(<<>>),
          Struct(<<Field(K2, Str(A1))>>), Struct(<<Field(K2, Struct(<<>>))>>),
          Map(<<Field(Str(K2), SeqOf(<<Str(A1)>>))>>)}

SecondValues == {Str(A1), None, SeqOf(<<Str(A1)>>)}

Structs ==
    {Struct(<<>>)} \cup {Struct(<<Field(K1, x)>>) : x \in FieldValues}
    \cup {Struct(<<Field(K1, x), Field(K2, y)>>) : x \in FieldValues, y \in SecondValues}

Maps ==
    {Map(<<>>)} \cup {Map(<<Field(Str(K1), x)>>) : x \in FieldValues}
    \cup {Map(<<Field(Str(K1), x), Field(Str(K2), y)>>) :
            x \in FieldValues, y \in SecondValues}

Tuples ==
    {Tuple(<<>>), Tuple(<<Str(A1)>>), Tuple(<<None, Str(A1)>>),
     TupleStruct(<<>>), TupleStruct(<<Str(A1)>>)}

\* the name of an enum variant
V1 == <<"V">>

\* a finite float and the non-finite ones
Floats == {Float(TRUE, <<"1", ".", "5">>), Float(FALSE, NaN), Float(FALSE, Inf),
           Float(FALSE, NegInf)}

\* enum variants: tuple variants of strings, struct variants of string fields,
\* newtype variants
Variants ==
    {TupleVariant(V1, q) : q \in SeqsUpTo({Str(<<>>), Str(A1)}, MaxSeqLen)}
    \cup {StructVariant(V1, <<>>), StructVariant(V1, <<Field(K1, Str(A1))>>),
          StructVariant(V1, <<Field(K1, Str(A1)), Field(K2, Str(<<>>))>>)}
    \cup {NewtypeVariant(V1, x) :
            x \in {Str(A1), None, Struct(<<>>), Struct(<<Field(K2, Str(A1))>>),
                   SeqOf(<<Str(A1)>>)}}

\* unit-like and absent values, floats and variants
Scalars == {None, Unit, UnitStruct} \cup Floats \cup Variants

\* the kinds of value a map is given as a key
KeyKinds ==
    {Str(K1), Char("a"), Bool(TRUE), Bool(FALSE), Integer(7), Integer(-12),
     Some(Str(K1)), NewtypeStruct(Integer(7)), Some(None), NewtypeStruct(Unit),
     None, Unit, UnitStruct, UnitVariant(V1), NewtypeVariant(V1, Str(A1)),
     TupleVariant(V1, <<>>), StructVariant(V1, <<>>), SeqOf(<<>>), Tuple(<<>>),
     TupleStruct(<<>>), Map(<<>>), Struct(<<>>), Bytes, I128, U128}
    \cup Floats

\* each of them at root, as the only field of a struct, as the only value of a
\* map and as the only element of a sequence that is a field
Placed ==
    Scalars
    \cup {Struct(<<Field(K1, x)>>) : x \in Scalars}
    \cup {Map(<<Field(Str(K1), x)>>) : x \in Scalars}
    \cup {Struct(<<Field(K1, SeqOf(<<x>>))>>) : x \in Scalars}
    \cup {Map(<<Field(k, Str(A1))>>) : k \in KeyKinds}
    \cup {Struct(<<Field(m, Str(A1))>>) : m \in {MacroBase, MacroInclude, A1}}
    \cup {Map(<<Field(Str(m), Str(A1))>>) : m \in {MacroBase, MacroInclude, A1}}

Values ==
    {Str(s) : s \in RootStrings} \cup {None, Unit, Some(Str(A1))}
    \cup Seqs \cup Tuples \cup Structs \cup Maps \cup Placed

RootKinds == {Flattened, Nested(K1)}

(***************************************************************************)
(* The encoder as a state machine: a value is handed to a new Serializer   *)
(* over an empty writer, and the top-level call runs to its return.        *)
(***************************************************************************)
IdleFormatter == with_opts(DefaultOpts)

\* no visit_map is running
NoVisit == map = <<>> /\ obj = <<>> /\ read = <<>>

\* no string has been handed to the two string writers
NoWrites == writes = [new |-> <<>>, old |-> <<>>]

Init ==
    /\ opts \in FormatOpts
    /\ value \in Values
    /\ ser = new(<<>>, with_opts(opts))
    /\ pc = "ready"
    /\ fmt = IdleFormatter
    /\ out = <<>>
    /\ calls = 0
    /\ lastOp = "none"
    /\ before = [f |-> IdleFormatter, w |-> <<>>]
    /\ arg = <<>>
    /\ twin = [f |-> IdleFormatter, w |-> <<>>, before_w |-> <<>>]
    /\ NoVisit
    /\ enc = <<>>
    /\ NoWrites

\* value.serialize(&mut serializer)
Encode ==
    /\ pc = "ready"
    /\ ser' = Serialize(ser, value)
    /\ pc' = "done"
    /\ UNCHANGED <<opts, value, fmt, out, calls, lastOp, before, arg, twin>>
    /\ UNCHANGED <<map, obj, read, enc, writes>>

Next == Encode

Spec == Init /\ [][Next]_vars

(***************************************************************************)
(* Vocabulary of the properties.                                           *)
(***************************************************************************)
Done == pc = "done"

\* a new serializer under the options of the run
Fresh == new(<<>>, with_opts(opts))

\* the text of one encode of x by a new serializer
TextOf(x) == Serialize(Fresh, x).writer

\* a key, and a string value after its separator, as the options render them
KeyText(k) == write_string_element(<<>>, k, opts.quote_keys)
ValueText(s) == opts.separator \o write_string_element(<<>>, s, opts.quote_values)
Pair(k, s) == KeyText(k) \o ValueText(s) \o <<NEWLINE>>

\* one pair per string of items, each under key k
RECURSIVE Pairs(_, _)
Pairs(k, items) ==
    IF items = <<>> THEN <<>> ELSE Pair(k, Head(items).v) \o Pairs(k, Tail(items))

IsSequence(x) == x.t \in {"Seq", "Tuple", "TupleStruct"}
IsObject(x) == x.t \in {"Struct", "Map"}

\* the key of entry e of object x, as text
EntryKey(x, e) == IF x.t = "Map" THEN e.key.v ELSE e.key

\* a struct or map with exactly one entry
SingleEntry(x) == IsObject(x) /\ Len(x.v) = 1

\* a non-empty sequence of strings
IsStringSeq(x) ==
    /\ IsSequence(x)
    /\ x.v # <<>>
    /\ \A i \in 1..Len(x.v) : x.v[i].t = "Str"

\* text that begins and ends with a quote character
Quoted(text) == Len(text) >= 2 /\ Head(text) = QUOTE /\ text[Len(text)] = QUOTE

\* the text between the surrounding quotes, or all of it when there are none
Body(text) == IF Quoted(text) THEN SubSeq(text, 2, Len(text) - 1) ELSE text

\* C1: a sequence of n >= 1 strings that is the value of the only field or
\* entry, under key k, of a struct or map is written as exactly n pairs with
\* key k, in element order, and nothing else.
C1_KeyRepeatedPerElement ==
    (Done /\ SingleEntry(value) /\ IsStringSeq(value.v[1].value))
        => /\ ok(ser)
           /\ ser.writer = Pairs(EntryKey(value, value.v[1]), value.v[1].value.v)

\* C2: an empty sequence that is the value of a field or entry writes nothing.
C2_EmptySequenceWritesNothing ==
    (Done /\ SingleEntry(value) /\ IsSequence(value.v[1].value)
          /\ value.v[1].value.v = <<>>)
        => (ok(ser) /\ ser.writer = <<>>)

\* C3: a sequence, tuple or tuple struct at document root fails with
\* RootLevelSequence, whatever its length.
C3_RootSequenceRejected ==
    (Done /\ IsSequence(value)) => ser.err.kind = "RootLevelSequence"

\* a sequence one of whose elements is a sequence
SequenceOfSequences(x) ==
    IsSequence(x) /\ \E i \in 1..Len(x.v) : IsSequence(x.v[i])

\* C4: a struct or map one of whose values is a sequence of sequences fails
\* with NestedSequence.
C4_NestedSequenceRejected ==
    (Done /\ IsObject(value)
          /\ \E i \in 1..Len(value.v) : SequenceOfSequences(value.v[i].value))
        => ser.err.kind = "NestedSequence"

\* the entries of a struct or map that do not hold None
RECURSIVE PresentEntries(_)
PresentEntries(entries) ==
    IF entries = <<>> THEN <<>>
    ELSE (IF Head(entries).value = None THEN <<>> ELSE <<Head(entries)>>)
         \o PresentEntries(Tail(entries))

\* C5: a struct or map is written as if its None entries were not there.
C5_NoneEntryOmitted ==
    (Done /\ IsObject(value))
        => ser.writer = TextOf([value EXCEPT !.v = PresentEntries(value.v)])

\* C6: what encodes without error decodes, under either document kind, to
\* the value that was encoded.
C6_RoundTrip ==
    (Done /\ ok(ser))
        => \A kind \in RootKinds :
              LET r == from_str(kind, ser.writer)
              IN  r.outcome = "Ok" /\ r.value = value

\* the strings the quoting rule names
RequiresQuotes(s) ==
    \/ s = <<>>
    \/ s[1] = "["
    \/ \E i \in 1..Len(s) : s[i] \in {"{", "}", QUOTE, SPACE, TAB, NEWLINE}

\* C7: a root-level string is surrounded by quotes exactly when the policy is
\* Always or the rule requires it; the empty string is two quote characters.
C7_QuotedWhenRequired ==
    (Done /\ value.t = "Str")
        => /\ Quoted(ser.writer)
                <=> (opts.quote_values = "Always" \/ RequiresQuotes(value.v))
           /\ value.v = <<>> => ser.writer = <<QUOTE, QUOTE>>

\* s with tab, newline, backslash and quote replaced by their escapes
RECURSIVE EscapedText(_)
EscapedText(s) ==
    IF s = <<>> THEN <<>>
    ELSE (IF Head(s) = TAB THEN <<BACKSLASH, "t">>
          ELSE IF Head(s) = NEWLINE THEN <<BACKSLASH, "n">>
          ELSE IF Head(s) = BACKSLASH THEN <<BACKSLASH, BACKSLASH>>
          ELSE IF Head(s) = QUOTE THEN <<BACKSLASH, QUOTE>>
          ELSE <<Head(s)>>) \o EscapedText(Tail(s))

\* C8: the body written for a root-level string s is s with each tab,
\* newline, backslash and quote replaced by its two-character escape and every
\* other character copied, in order, under both quoting policies.
C8_BodyIsEscapedText ==
    (Done /\ value.t = "Str") => (ok(ser) /\ Body(ser.writer) = EscapedText(value.v))

\* C8's case: a fragment, an escape and a trailing fragment have been written
C8_Witness ==
    /\ Done
    /\ value = Str(<<"a", QUOTE>>)
    /\ opts.quote_values = "WhenRequired"
    /\ ser.writer = <<QUOTE, "a", BACKSLASH, QUOTE, QUOTE>>

\* the braces of an empty object that is the value of a key at indent level n
EmptyBraces(n) ==
    (IF opts.brace_style = "Allman"
     THEN <<NEWLINE>> \o Repeat(opts.indent, n) \o <<"{", NEWLINE>>
     ELSE <<SPACE, "{", NEWLINE>>)
    \o Repeat(opts.indent, n) \o <<"}", NEWLINE>>

IsEmptyObject(x) == IsObject(x) /\ x.v = <<>>

\* C10: an empty struct or map under key k is k, an opening brace and a
\* closing brace with nothing between them, also one object deeper; at
\* document root it is the empty text.
C10_EmptyObject ==
    /\ (Done /\ IsEmptyObject(value)) => (ok(ser) /\ ser.writer = <<>>)
    /\ (Done /\ SingleEntry(value) /\ IsEmptyObject(value.v[1].value))
          => /\ ok(ser)
             /\ ser.writer = KeyText(EntryKey(value, value.v[1])) \o EmptyBraces(0)
    /\ (Done /\ value = Struct(<<Field(K1, Struct(<<Field(K2, Struct(<<>>))>>))>>))
          => ser.writer =
                KeyText(K1)
                \o (IF opts.brace_style = "Allman"
                    THEN <<NEWLINE, "{", NEWLINE>> ELSE <<SPACE, "{", NEWLINE>>)
                \o opts.indent \o KeyText(K2) \o EmptyBraces(1)
                \o <<"}", NEWLINE>>

\* C10's case: an empty map under a key has been written with K&R braces
C10_Witness ==
    /\ Done
    /\ value = Struct(<<Field(K1, Map(<<>>))>>)
    /\ opts.brace_style = "KAndR"
    /\ opts.quote_keys = "WhenRequired"
    /\ ser.writer = <<"k", SPACE, "{", NEWLINE, "}", NEWLINE>>

\* the indentation of level n
Indent(n) == Repeat(opts.indent, n)

\* the opening brace of an object whose key is at level n, and its closing line
Open(n) ==
    IF opts.brace_style = "Allman"
    THEN <<NEWLINE>> \o Indent(n) \o <<"{", NEWLINE>>
    ELSE <<SPACE, "{", NEWLINE>>
Close(n) == Indent(n) \o <<"}", NEWLINE>>

\* one line at level n per string of items, each under key k
RECURSIVE Lines(_, _, _)
Lines(n, k, items) ==
    IF items = <<>> THEN <<>>
    ELSE Indent(n) \o Pair(k, Head(items).v) \o Lines(n, k, Tail(items))

\* one line at level n per string field, in declaration order
RECURSIVE FieldLines(_, _)
FieldLines(n, fields) ==
    IF fields = <<>> THEN <<>>
    ELSE Indent(n) \o Pair(Head(fields).key, Head(fields).value.v)
         \o FieldLines(n, Tail(fields))

\* the call returned Ok with nothing left open
Settled ==
    /\ ok(ser)
    /\ ser.formatter.elements = <<>>
    /\ ser.formatter.indent_level = -1
    /\ ser.key_stack = <<>>
    /\ Count(ser.writer, "{") = Count(ser.writer, "}")

\* C11: a tuple variant of n strings is n pairs keyed by the variant name, in
\* field order, and a struct variant is the variant name bound to an object of
\* its fields in declaration order; under a key either is wrapped in one more
\* object; every brace opened is closed when the call returns.
C11_VariantIsObjectKeyedByName ==
    /\ (Done /\ value.t = "TupleVariant")
          => (Settled /\ ser.writer = Lines(0, value.v.variant, value.v.items))
    /\ (Done /\ SingleEntry(value) /\ value.v[1].value.t = "TupleVariant")
          => /\ Settled
             /\ ser.writer =
                   KeyText(EntryKey(value, value.v[1])) \o Open(0)
                   \o Lines(1, value.v[1].value.v.variant, value.v[1].value.v.items)
                   \o Close(0)
    /\ (Done /\ value.t = "StructVariant")
          => /\ Settled
             /\ ser.writer =
                   KeyText(value.v.variant) \o Open(0)
                   \o FieldLines(1, value.v.fields) \o Close(0)
    /\ (Done /\ SingleEntry(value) /\ value.v[1].value.t = "StructVariant")
          => /\ Settled
             /\ ser.writer =
                   KeyText(EntryKey(value, value.v[1])) \o Open(0)
                   \o Indent(1) \o KeyText(value.v[1].value.v.variant) \o Open(1)
                   \o FieldLines(2, value.v[1].value.v.fields)
                   \o Close(1) \o Close(0)

\* C11's case: a tuple variant of two strings under a key has been written
C11_Witness ==
    /\ Done
    /\ value = Struct(<<Field(K1, TupleVariant(V1, <<Str(<<>>), Str(A1)>>))>>)
    /\ opts = DefaultOpts
    /\ Count(ser.writer, "V") = 2
    /\ Count(ser.writer, "{") = 1


\* what follows the key of a wrapped string or struct of string fields, the
\* key being at level n
Wrapped(n, x) ==
    IF x.t = "Str" THEN ValueText(x.v) \o <<NEWLINE>>
    ELSE Open(n) \o FieldLines(n + 1, x.v) \o Close(n)

\* a string or a struct
IsStrOrStruct(x) == x.t \in {"Str", "Struct"}

AsOneFieldStruct(x) == Struct(<<Field(x.v.variant, x.v.value)>>)

\* C13 as stated: the text of a newtype variant is the text of the value it
\* wraps.
C13_NewtypeVariantTransparent ==
    (Done /\ value.t = "NewtypeVariant") => ser.writer = TextOf(value.v.value)

\* C13: a newtype variant is not written as the value it wraps: it is encoded
\* exactly as the struct of one field, named as the variant, that holds the
\* wrapped value, at root and under a key.
C13_NewtypeVariantLikeOneFieldStruct ==
    /\ (Done /\ value.t = "NewtypeVariant")
          => /\ ser = Serialize(Fresh, AsOneFieldStruct(value))
             /\ ser.writer # TextOf(value.v.value)
    /\ (Done /\ SingleEntry(value) /\ value.v[1].value.t = "NewtypeVariant")
          => ser = Serialize(Fresh,
                      [value EXCEPT !.v[1].value = AsOneFieldStruct(@)])

\* C13's case: a newtype variant that wraps a struct has been written at root
C13_Witness ==
    /\ Done
    /\ value = NewtypeVariant(V1, Struct(<<Field(K2, Str(A1))>>))
    /\ ok(ser)
    /\ Count(ser.writer, "V") = 1
    /\ Count(ser.writer, "j") = 1

\* a key with Some and newtype-struct wrappers taken off
RECURSIVE Unwrapped(_)
Unwrapped(k) == IF k.t \in {"Some", "NewtypeStruct"} THEN Unwrapped(k.v) ELSE k

\* the text form of a string, char, bool, integer or float
TextForm(k) ==
    CASE k.t = "Str" -> k.v
      [] k.t = "Char" -> <<k.v>>
      [] k.t = "Bool" -> IF k.v THEN <<"1">> ELSE <<"0">>
      [] k.t = "Int" -> int_to_string(k.v)
      [] k.t = "Float" -> k.v.text

\* a map of the one entry k: "a", k of one of the kinds of key
IsKeyedMap(x) ==
    /\ x.t = "Map"
    /\ Len(x.v) = 1
    /\ x.v[1].key \in KeyKinds
    /\ x.v[1].value = Str(A1)

\* C14 as stated: strings, chars, bools and integers are the only keys
\* accepted, and every other kind of key fails with KeyMustBeAString.
C14_OnlyStringableKeys ==
    (Done /\ IsKeyedMap(value)) =>
        LET k == Unwrapped(value.v[1].key)
        IN  IF k.t \in {"Str", "Char", "Bool", "Int"}
            THEN ok(ser) /\ ser.writer = Pair(TextForm(k), A1)
            ELSE ser.err.kind = "KeyMustBeAString" /\ ser.writer = <<>>

\* C14: a key is accepted when, with Some and newtype-struct wrappers taken
\* off, it is a string, char, bool, integer of at most 64 bits or finite float,
\* and is then written once as its text form; a 128-bit integer fails with
\* UnsupportedType, a non-finite float with NonFiniteFloat and every other kind
\* with KeyMustBeAString, and a key that fails writes nothing.
C14_KeyAcceptedByKind ==
    (Done /\ IsKeyedMap(value)) =>
        LET k == Unwrapped(value.v[1].key)
        IN  IF k.t \in {"Str", "Char", "Bool", "Int"} \/ (k.t = "Float" /\ k.v.finite)
            THEN Settled /\ ser.writer = Pair(TextForm(k), A1)
            ELSE /\ ser.writer = <<>>
                 /\ ser.err.kind =
                       (IF k.t \in {"I128", "U128"} THEN "UnsupportedType"
                        ELSE IF k.t = "Float" THEN "NonFiniteFloat"
                        ELSE "KeyMustBeAString")

\* C14's case: a finite float has been written as a key
C14_Witness ==
    /\ Done
    /\ value = Map(<<Field(Float(TRUE, <<"1", ".", "5">>), Str(A1))>>)
    /\ ok(ser)
    /\ Count(ser.writer, ".") = 1

\* x holds one value at root, as its only field or entry, or as the only
\* element of the sequence that is its only field or entry
HoldsOne(x) ==
    IsObject(x) => (Len(x.v) = 1 /\ (x.v[1].value.t = "Seq" => Len(x.v[1].value.v) = 1))

\* the value x holds, and x with y held in its place
Held(x) ==
    IF ~IsObject(x) THEN x
    ELSE IF x.v[1].value.t = "Seq" THEN x.v[1].value.v[1]
    ELSE x.v[1].value
Holding(x, y) ==
    IF ~IsObject(x) THEN y
    ELSE IF x.v[1].value.t = "Seq" THEN [x EXCEPT !.v[1].value.v[1] = y]
    ELSE [x EXCEPT !.v[1].value = y]

\* the characters of text
Chars(text) == {text[i] : i \in 1..Len(text)}

\* C15: a finite float is written as the string of its text form; a NaN or
\* infinite float fails with NonFiniteFloat carrying it, at root, as a field,
\* map value or sequence element (where only key text has been written by then)
\* and as a map key (where nothing has).
C15_NonFiniteFloatRejected ==
    /\ (Done /\ HoldsOne(value) /\ Held(value).t = "Float")
          => IF Held(value).v.finite
             THEN /\ ser = Serialize(Fresh, Holding(value, Str(Held(value).v.text)))
                  /\ ~IsObject(value) => (Settled /\ Body(ser.writer) = Held(value).v.text)
             ELSE /\ ser.err.kind = "NonFiniteFloat"
                  /\ ser.err.desc \in {"NaN", "inf", "-inf"}
                  /\ ser.err.desc = "NaN" <=> Held(value).v.text = NaN
                  /\ ser.err.desc = "inf" <=> Held(value).v.text = Inf
                  /\ IF IsObject(value)
                     THEN Chars(ser.writer) = Chars(KeyText(EntryKey(value, value.v[1])))
                     ELSE ser.writer = <<>>
    /\ (Done /\ IsKeyedMap(value) /\ value.v[1].key.t = "Float"
             /\ ~value.v[1].key.v.finite)
          => /\ ser.err.kind = "NonFiniteFloat"
             /\ ser.err.desc = "NaN" <=> value.v[1].key.v.text = NaN
             /\ ser.writer = <<>>

\* C15's case: NaN as the value of a struct field has been refused after its key
C15_Witness ==
    /\ Done
    /\ value = Struct(<<Field(K1, Float(FALSE, NaN))>>)
    /\ ser.err = Err("NonFiniteFloat", "NaN")
    /\ ser.writer = KeyText(K1)

\* C16: a unit or unit struct at root, as a field, as a map value or as a
\* sequence element is encoded as None is in its place: the same text, result,
\* formatter and key stack.
C16_UnitLikeNone ==
    (Done /\ HoldsOne(value) /\ Held(value) \in {Unit, UnitStruct})
        => ser = Serialize(Fresh, Holding(value, None))

\* C16's case: a unit struct that is a sequence element has been written
C16_Witness ==
    /\ Done
    /\ value = Struct(<<Field(K1, SeqOf(<<UnitStruct>>))>>)
    /\ opts = DefaultOpts
    /\ ok(ser)
    /\ Count(ser.writer, QUOTE) = 6

\* C18: a struct field or map key that is "#base" or "#include" is written
\* under quote_keys, as any other field is.
C18_MacroFieldLikeAnyField ==
    (Done /\ SingleEntry(value) /\ value.v[1].value = Str(A1)
          /\ (value.t = "Map" => value.v[1].key.t = "Str")
          /\ EntryKey(value, value.v[1]) \in {MacroBase, MacroInclude})
        => /\ ok(ser)
           /\ ser.writer =
                 write_string_element(<<>>, EntryKey(value, value.v[1]), opts.quote_keys)
                 \o ValueText(A1) \o <<NEWLINE>>

\* the text written for the string s under a quoting policy
Under(quoting, s) == write_string_element(<<>>, s, quoting)

\* C22: the text written for a string under WhenRequired is the text written
\* for it under Always, or that text without its first and its last
\* character, which are quotes; WhenRequired writes no quote that Always
\* does not write.  The encoder writes a root string under quote_values.
C22_WhenRequiredWithinAlways ==
    (Done /\ value.t = "Str") =>
        LET always == Under("Always", value.v)
            required == Under("WhenRequired", value.v)
        IN  /\ ok(ser)
            /\ ser.writer = Under(opts.quote_values, value.v)
            /\ Len(always) >= 2
            /\ always[1] = QUOTE
            /\ always[Len(always)] = QUOTE
            /\ \/ required = always
               \/ required = SubSeq(always, 2, Len(always) - 1)
            /\ Count(required, QUOTE) <= Count(always, QUOTE)

\* C22's case: a string with a backslash, which is escaped under both
\* policies and quoted under Always only
C22_Witness ==
    /\ Done
    /\ value = Str(<<"a", BACKSLASH>>)
    /\ opts.quote_values = "WhenRequired"
    /\ ser.writer = <<"a", BACKSLASH, BACKSLASH>>
    /\ Under("Always", value.v) = <<QUOTE, "a", BACKSLASH, BACKSLASH, QUOTE>>

\* C23: a failed encode has written nothing to its sink.
C23_NoPartialOutput ==
    (Done /\ ~ok(ser)) => ser.writer = <<>>

\* the text written is a document with the single top-level key k
DocumentWithKey(k) ==
    /\ Done
    /\ ok(ser)
    /\ value.t = "Struct"
    /\ Len(value.v) = 1
    /\ value.v[1].key = k
    /\ ser.writer # <<>>

\* the text written is a document with two distinct top-level keys
DocumentWithTwoKeys ==
    /\ Done
    /\ ok(ser)
    /\ value.t = "Struct"
    /\ Len(value.v) = 2
    /\ value.v[1].key # value.v[2].key
    /\ Count(ser.writer, NEWLINE) = 2

\* C25: from_str of a Flattened type returns what from_str_flat returns; of
\* a type Nested(k) it returns the value from_str_nested decoded when the key
\* of the document is k, UnsupportedKey when it is another key, and the
\* error of from_str_nested as it is.
C25_FromStrDispatch ==
    DocumentWithKey(K1) =>
        /\ from_str(Flattened, ser.writer) = from_str_flat(ser.writer)
        /\ from_str_nested(ser.writer).outcome = "Err" =>
              from_str(Nested(K1), ser.writer) = from_str_nested(ser.writer)
        /\ from_str_nested(ser.writer).outcome # "Err" =>
              /\ from_str(Nested(K1), ser.writer).outcome = "Ok"
              /\ from_str(Nested(K1), ser.writer).value = from_str_nested(ser.writer).value
              /\ from_str(Nested(K2), ser.writer).outcome = "Err"
              /\ from_str(Nested(K2), ser.writer).err.kind = "UnsupportedKey"

\* C26: a text with two top-level keys decoded as a Nested document fails
\* with MultipleRootKeys and decoded as a Flattened document succeeds.
C26_MultipleRootKeys ==
    DocumentWithTwoKeys =>
        /\ from_str_nested(ser.writer).outcome = "Err"
        /\ from_str_nested(ser.writer).err.kind = "MultipleRootKeys"
        /\ from_str_flat(ser.writer).outcome = "Ok"
        /\ from_str(Flattened, ser.writer).outcome = "Ok"

\* the largest of a set of naturals, 0 for none
Largest(S) == IF S = {} THEN 0 ELSE CHOOSE n \in S : \A m \in S : m <= n

\* how many serialize calls are nested in the encoding of x: x.serialize(..)
\* calls the serialize of what x holds
RECURSIVE Nesting(_)
Nesting(x) ==
    CASE x.t \in {"Some", "NewtypeStruct"} -> 1 + Nesting(x.v)
      [] x.t = "NewtypeVariant" -> 1 + Nesting(x.v.value)
      [] x.t \in {"Seq", "Tuple", "TupleStruct"} ->
            1 + Largest({Nesting(x.v[i]) : i \in 1..Len(x.v)})
      [] x.t = "TupleVariant" ->
            1 + Largest({Nesting(x.v.items[i]) : i \in 1..Len(x.v.items)})
      [] x.t \in {"Struct", "Map"} ->
            1 + Largest({Nesting(x.v[i].value) : i \in 1..Len(x.v)})
      [] x.t = "StructVariant" ->
            1 + Largest({Nesting(x.v.fields[i].value) : i \in 1..Len(x.v.fields)})
      [] OTHER -> 0

\* a struct in a struct in a struct
NestedStructs == Struct(<<Field(K1, Struct(<<Field(K2, Struct(<<>>))>>))>>)

\* C28: there is a maximum depth, below the nesting of the values encoded
\* here, such that a value nested more deeply than it is rejected with
\* RecursionLimitExceeded.
C28_RecursionLimited ==
    \E limit \in 0..(Nesting(NestedStructs) - 1) :
        (Done /\ Nesting(value) > limit) => ser.err.kind = "RecursionLimitExceeded"

\* C30: while it encodes a value it accepts, the serializer makes no call
\* that a debug assertion of the formatter rejects (write_string on an Object
\* or a KeyValue, end_key without Key on KeyValue, begin_value without
\* KeyValue, end_value without Value on KeyValue, end_object without Object)
\* and pops no element from an empty stack.
C30_AssertionsHold ==
    (Done /\ ok(ser)) =>
        /\ ~ser.formatter.assert_failed
        /\ ~ser.formatter.panic
        /\ ser.err.kind # "Panic"

\* C30's case: a map with a sequence under its first key and a second entry
C30_Witness ==
    /\ Done
    /\ ok(ser)
    /\ value = Map(<<Field(Str(K1), SeqOf(<<Str(A1), Struct(<<Field(K2, Str(A1))>>)>>)),
                     Field(Str(K2), Str(A1))>>)
    /\ Count(ser.writer, NEWLINE) >= 4
    /\ ~ser.formatter.assert_failed

\* the element below position i of an element stack, "None" below the first
Below(elements, i) == IF i = 1 THEN "None" ELSE elements[i - 1]

\* a KeyValue lies on an Object, a Key or Value on a KeyValue, an Object on a
\* Value or on nothing
WellFormed(elements) ==
    \A i \in 1..Len(elements) :
        CASE elements[i] = "KeyValue" -> Below(elements, i) = "Object"
          [] elements[i] \in {"Key", "Value"} -> Below(elements, i) = "KeyValue"
          [] elements[i] = "Object" -> Below(elements, i) \in {"None", "Value"}

\* C31: the element stack of the formatter is well-formed in every state of
\* an encode: no begin_key was issued on a Key or a Value.
C31_ElementStackWellFormed ==
    WellFormed(ser.formatter.elements)

\* the serializer holds no key and its formatter no element
AtRest(s) ==
    /\ s.key_stack = <<>>
    /\ s.formatter.elements = <<>>
    /\ s.formatter.indent_level = -1

\* the next top-level serialize call on the serializer of the run
Again(x) == Serialize([ser EXCEPT !.err = Ok], x)

\* C32: after an encode that returned an error the serializer and its
\* formatter are as new, so that the next encode with them rejects a root
\* sequence and writes no braces for a root object.
C32_AsNewAfterError ==
    (Done /\ ~ok(ser)) =>
        /\ AtRest(ser)
        /\ Again(SeqOf(<<Str(A1)>>)).err.kind = "RootLevelSequence"
        /\ Again(Struct(<<>>)).writer = ser.writer

\* C33: after an encode that returned Ok the key stack and the element stack
\* are empty and indent_level is -1.
C33_AtRestAfterOk ==
    (Done /\ ok(ser)) => AtRest(ser)

\* C33's case: a struct variant with two fields under a key of the root
\* struct, each of which pushes keys and elements
C33_Witness ==
    /\ Done
    /\ ok(ser)
    /\ value.t = "Struct"
    /\ Len(value.v) = 1
    /\ value.v[1].value.t = "StructVariant"
    /\ Len(value.v[1].value.v.fields) = 2
    /\ Count(ser.writer, "}") = 2
    /\ AtRest(ser)

\* the characters write_string_element writes as two
HasEscape(s) == \E i \in 1..Len(s) : s[i] \in EscapedChars

\* C34: under WhenRequired a string written with an escape for a tab, a
\* newline, a backslash or a quote is written within quotes.
C34_EscapesOnlyInQuotes ==
    (Done /\ value.t = "Str" /\ opts.quote_values = "WhenRequired" /\ HasEscape(value.v))
        => Quoted(ser.writer)

(***************************************************************************)
(* The tokens of the text grammar: white space separates tokens, "//"      *)
(* starts a comment that runs to the end of the line, a token is a brace,  *)
(* a quoted string with the escapes \t \n \\ \", or an unquoted run of     *)
(* characters that are no white space, brace or quote.                     *)
(***************************************************************************)
\* text from the end of its first line on
RECURSIVE AfterLine(_)
AfterLine(text) ==
    IF text = <<>> \/ Head(text) = NEWLINE THEN text ELSE AfterLine(Tail(text))

\* the length of the unquoted run text begins with
RECURSIVE RunLength(_)
RunLength(text) ==
    IF text = <<>> \/ is_whitespace(Head(text)) \/ Head(text) \in {"{", "}", QUOTE}
    THEN 0 ELSE 1 + RunLength(Tail(text))

\* the position from i on of the quote that closes a quoted string, 0 for none
RECURSIVE ClosingQuote(_, _)
ClosingQuote(text, i) ==
    IF i > Len(text) THEN 0
    ELSE IF text[i] = QUOTE THEN i
    ELSE IF text[i] = BACKSLASH THEN ClosingQuote(text, i + 2)
    ELSE ClosingQuote(text, i + 1)

\* the content of a quoted string: each escape is the character it stands for
RECURSIVE Unescaped(_)
Unescaped(body) ==
    IF body = <<>> THEN <<>>
    ELSE IF Head(body) = BACKSLASH /\ Len(body) >= 2 /\ body[2] \in {"t", "n", BACKSLASH, QUOTE}
         THEN <<CASE body[2] = "t" -> TAB
                  [] body[2] = "n" -> NEWLINE
                  [] body[2] = BACKSLASH -> BACKSLASH
                  [] body[2] = QUOTE -> QUOTE>> \o Unescaped(Tail(Tail(body)))
         ELSE <<Head(body)>> \o Unescaped(Tail(body))

StringToken(s) == [kind |-> "string", content |-> s]
BraceToken(c) == [kind |-> "brace", content |-> <<c>>]
Unterminated == [kind |-> "error", content |-> <<>>]

\* the tokens of a text
RECURSIVE Tokens(_)
Tokens(text) ==
    IF text = <<>> THEN <<>>
    ELSE IF is_whitespace(Head(text)) THEN Tokens(Tail(text))
    ELSE IF Len(text) >= 2 /\ text[1] = "/" /\ text[2] = "/" THEN Tokens(AfterLine(text))
    ELSE IF Head(text) \in {"{", "}"} THEN <<BraceToken(Head(text))>> \o Tokens(Tail(text))
    ELSE IF Head(text) = QUOTE
         THEN LET close == ClosingQuote(text, 2)
              IN  IF close = 0 THEN <<Unterminated>>
                  ELSE <<StringToken(Unescaped(SubSeq(text, 2, close - 1)))>>
                       \o Tokens(SubSeq(text, close + 1, Len(text)))
    ELSE <<StringToken(SubSeq(text, 1, RunLength(text)))>>
         \o Tokens(SubSeq(text, RunLength(text) + 1, Len(text)))

\* C35: the text written for a string under WhenRequired is read by the
\* grammar as one string token, whose content is the string.
C35_ReadBackAsOneString ==
    (Done /\ value.t = "Str" /\ opts.quote_values = "WhenRequired")
        => Tokens(ser.writer) = <<StringToken(value.v)>>

\* the key of the innermost field, entry or variant that encloses each sequence
\* element of x, in the order the elements stand in x, where k is the key that
\* encloses x itself
RECURSIVE EnclosingKeys(_, _)
RECURSIVE EnclosingKeysOfItems(_, _)
RECURSIVE EnclosingKeysOfFields(_)
RECURSIVE EnclosingKeysOfEntries(_)
EnclosingKeys(x, k) ==
    CASE x.t \in {"Seq", "Tuple", "TupleStruct"} -> EnclosingKeysOfItems(x.v, k)
      [] x.t = "TupleVariant" -> EnclosingKeysOfItems(x.v.items, x.v.variant)
      [] x.t = "Struct" -> EnclosingKeysOfFields(x.v)
      [] x.t = "Map" -> EnclosingKeysOfEntries(x.v)
      [] x.t = "StructVariant" -> EnclosingKeysOfFields(x.v.fields)
      [] x.t = "NewtypeVariant" -> EnclosingKeys(x.v.value, x.v.variant)
      [] x.t \in {"Some", "NewtypeStruct"} -> EnclosingKeys(x.v, k)
      [] OTHER -> <<>>

EnclosingKeysOfItems(items, k) ==
    IF items = <<>> THEN <<>>
    ELSE <<k>> \o EnclosingKeys(Head(items), k) \o EnclosingKeysOfItems(Tail(items), k)

EnclosingKeysOfFields(fields) ==
    IF fields = <<>> THEN <<>>
    ELSE EnclosingKeys(Head(fields).value, Head(fields).key)
         \o EnclosingKeysOfFields(Tail(fields))

EnclosingKeysOfEntries(entries) ==
    IF entries = <<>> THEN <<>>
    ELSE EnclosingKeys(Head(entries).value, TextForm(Unwrapped(Head(entries).key)))
         \o EnclosingKeysOfEntries(Tail(entries))

\* C36: the key that each sequence element repeats, which is the top of the key
\* stack at that element, is the key of the innermost struct field, map entry or
\* enum variant that encloses the element, also for the elements that follow a
\* nested struct, map or variant that has been closed: an encoding that returns
\* Ok has read these keys for all the elements, one that returns an error for the
\* elements it reached.
C36_ElementKeyIsInnermostOpenKey ==
    Done =>
        LET keys == EnclosingKeys(value, <<>>)
        IN  /\ Len(ser.element_keys) <= Len(keys)
            /\ ser.element_keys = SubSeq(keys, 1, Len(ser.element_keys))
            /\ ok(ser) => ser.element_keys = keys

\* a field whose sequence has a struct with a field of its own as its first
\* element and a string as its second has been encoded
C36_Witness ==
    /\ Done /\ ok(ser)
    /\ value = Struct(<<Field(K1, SeqOf(<<Struct(<<Field(K2, Str(A1))>>), Str(A1)>>))>>)
    /\ ser.element_keys = <<K1, K1>>

\* the names of the kind of k in the serde data model
KindNames(k) ==
    CASE k.t = "Bytes" -> {"bytes"}
      [] k.t = "None" -> {"none", "option"}
      [] k.t = "Unit" -> {"unit"}
      [] k.t = "UnitStruct" -> {"unit struct"}
      [] k.t = "UnitVariant" -> {"unit variant"}
      [] k.t = "NewtypeVariant" -> {"newtype variant"}
      [] k.t = "Seq" -> {"sequence", "seq"}
      [] k.t = "Tuple" -> {"tuple"}
      [] k.t = "TupleStruct" -> {"tuple struct"}
      [] k.t = "TupleVariant" -> {"tuple variant"}
      [] k.t = "Map" -> {"map"}
      [] k.t = "Struct" -> {"struct"}
      [] k.t = "StructVariant" -> {"struct variant"}
      [] OTHER -> {}

\* C38: the description that KeyMustBeAString carries names the kind of the
\* value that was used as the key, with Some and newtype-struct wrappers taken
\* off, and no other kind.
C38_KeyErrorNamesTheKind ==
    (Done /\ IsKeyedMap(value) /\ ser.err.kind = "KeyMustBeAString")
        => ser.err.desc \in KindNames(Unwrapped(value.v[1].key))

\* C38 for every kind of key but None
C38_NamedButNone ==
    (Done /\ IsKeyedMap(value) /\ ser.err.kind = "KeyMustBeAString"
          /\ Unwrapped(value.v[1].key).t # "None")
        => ser.err.desc \in KindNames(Unwrapped(value.v[1].key))

(***************************************************************************)
(* The encoder over a sink of a few bytes: the same call, made on a sink   *)
(* that fails once it is full.                                             *)
(***************************************************************************)
\* values the encoder rejects
Rejected == {Float(FALSE, NaN), Bytes, U128}

\* values that are accepted, and structs and maps whose first entry is
\* rejected
SinkValues ==
    {Str(A1), Struct(<<>>), Map(<<>>),
     Struct(<<Field(K1, Str(A1))>>),
     Struct(<<Field(K1, Str(A1)), Field(K2, Str(A1))>>),
     Struct(<<Field(K1, SeqOf(<<Str(A1), Str(A1)>>)), Field(K2, Str(A1))>>),
     Struct(<<Field(K1, Struct(<<Field(K2, Str(A1))>>)), Field(K2, Str(A1))>>),
     Map(<<Field(Str(K1), Str(A1)), Field(Str(K2), Str(A1))>>),
     Map(<<Field(Str(K1), Struct(<<>>)), Field(Str(K2), Str(A1))>>),
     NewtypeVariant(V1, Str(A1)),
     TupleVariant(V1, <<Str(A1), Str(A1)>>)}
    \cup {Struct(<<Field(K1, x), Field(K2, y)>>) : x \in Rejected, y \in {Str(A1), I128}}
    \cup {Map(<<Field(Str(K1), x), Field(Str(K2), y)>>) :
            x \in Rejected, y \in {Str(A1), I128}}

SinkInit ==
    /\ opts \in FormatOpts
    /\ value \in SinkValues
    /\ \E n \in 0..MaxRoom : ser = with_room(new(<<>>, with_opts(opts)), n)
    /\ pc = "ready"
    /\ fmt = IdleFormatter
    /\ out = <<>>
    /\ calls = 0
    /\ lastOp = "none"
    /\ before = [f |-> IdleFormatter, w |-> <<>>]
    /\ arg = <<>>
    /\ twin = [f |-> IdleFormatter, w |-> <<>>, before_w |-> <<>>]
    /\ NoVisit
    /\ enc = <<>>
    /\ NoWrites

SinkSpec == SinkInit /\ [][Next]_vars

\* the encoding of x on a sink that grows
Unbounded(x) == Serialize(Fresh, x)

\* the encoding of x on a sink like the one of the run
Bounded(x) == Serialize(with_room(Fresh, ser.room), x)

\* the value holds two entries
TwoEntries == value.t \in {"Struct", "Map"} /\ Len(value.v) = 2

\* the value cut down to its first entry
FirstEntryOnly == [value EXCEPT !.v = <<value.v[1]>>]

\* C24: the error an encode returns is the first one raised and nothing is
\* written or called after it.  On a sink too small for the text the call
\* returns Io with the sink holding exactly the text that fitted; on a sink
\* that is large enough it returns what it returns on a sink that grows.
\* When the first of two entries fails, the call ends as the encoding of
\* that entry alone ends: same error, same text, same formatter state; when
\* the value of the first entry is rejected, the call returns its error, or
\* Io from the key before it, and the sink holds the first key at most.
C24_FailFast ==
    Done =>
        /\ IF Len(Unbounded(value).writer) <= ser.room
           THEN ser.writer = Unbounded(value).writer /\ ser.err = Unbounded(value).err
           ELSE /\ ser.err = IoError
                /\ ser.writer = SubSeq(Unbounded(value).writer, 1, ser.room)
        /\ (TwoEntries /\ Bounded(FirstEntryOnly).err # Ok) => ser = Bounded(FirstEntryOnly)
        /\ (TwoEntries /\ value.v[1].value \in Rejected) =>
              IF ser.room < Len(KeyText(K1))
              THEN ser.err = IoError /\ ser.writer = SubSeq(KeyText(K1), 1, ser.room)
              ELSE /\ ser.err.kind \in {"NonFiniteFloat", "UnsupportedType"}
                   /\ ser.writer = KeyText(K1)

\* C24's case: the first field is a non-finite float and the second a type
\* that is rejected too; the sink has room for the first key
C24_Witness ==
    /\ Done
    /\ value = Struct(<<Field(K1, Float(FALSE, NaN)), Field(K2, I128)>>)
    /\ opts.quote_keys = "Always"
    /\ ser.room = 3
    /\ ser.writer = <<QUOTE, "k", QUOTE>>
    /\ ser.err = Err("NonFiniteFloat", "NaN")
    /\ ser.formatter.elements = <<"Object", "KeyValue", "Value">>

\* C24's other case: the sink fails inside the first key
C24_SinkFailed ==
    /\ Done
    /\ value = Struct(<<Field(K1, Float(FALSE, NaN)), Field(K2, I128)>>)
    /\ opts.quote_keys = "Always"
    /\ ser.room = 2
    /\ ser.writer = <<QUOTE, "k">>
    /\ ser.err = IoError

(***************************************************************************)
(* The formatter driven directly, as its unit tests drive it: a well-nested *)
(* sequence of calls on one PrettyFormatter and one writer.  lastOp is the  *)
(* call made last and before the formatter and writer it was made on.      *)
(***************************************************************************)
FmtStrings == {A1, <<"{">>, MacroBase, MacroInclude}
FmtComments == {A1}
FmtConditions == {<<"$", QUOTE>>}

\* the other brace style
other_style(b) == IF b = "Allman" THEN "KAndR" ELSE "Allman"

\* a formatter of the other brace style, otherwise configured as the run's
TwinFormatter == with_opts([opts EXCEPT !.brace_style = other_style(@)])

FmtInit ==
    /\ opts \in FormatOpts
    /\ value = None
    /\ ser = new(<<>>, with_opts(opts))
    /\ pc = "idle"
    /\ fmt = with_opts(opts)
    /\ out = <<>>
    /\ calls = 0
    /\ lastOp = "none"
    /\ before = [f |-> with_opts(opts), w |-> <<>>]
    /\ arg = <<>>
    /\ twin = [f |-> TwinFormatter, w |-> <<>>, before_w |-> <<>>]
    /\ NoVisit
    /\ enc = <<>>
    /\ NoWrites

\* the call op(a) on formatter f and writer w
Apply(op, f, w, a) ==
    CASE op = "begin_object" -> begin_object(f, w)
      [] op = "end_object" -> end_object(f, w)
      [] op = "begin_key" -> begin_key(f, w)
      [] op = "end_key" -> end_key(f, w)
      [] op = "begin_value" -> begin_value(f, w)
      [] op = "end_value" -> end_value(f, w)
      [] op = "write_string" -> write_string(f, w, a)
      [] op = "write_conditional" -> write_conditional(f, w, a)
      [] op = "write_line_comment" -> write_line_comment(f, w, a)

\* one formatter call op(a), made on the formatter and on its twin
Called(op, a) ==
    /\ calls < MaxCalls
    /\ fmt' = Apply(op, fmt, out, a).f
    /\ out' = Apply(op, fmt, out, a).w
    /\ calls' = calls + 1
    /\ lastOp' = op
    /\ before' = [f |-> fmt, w |-> out]
    /\ arg' = a
    /\ twin' = [f |-> Apply(op, twin.f, twin.w, a).f,
                w |-> Apply(op, twin.f, twin.w, a).w,
                before_w |-> twin.w]
    /\ UNCHANGED <<opts, value, ser, pc, map, obj, read, enc, writes>>

BeginObject ==
    /\ \/ last(fmt.elements) = "None"
       \/ last(fmt.elements) = "Value" /\ lastOp = "begin_value"
    /\ Called("begin_object", <<>>)

EndObject ==
    /\ last(fmt.elements) = "Object"
    /\ Called("end_object", <<>>)

BeginKey ==
    /\ last(fmt.elements) \in {"None", "Object"}
    /\ Called("begin_key", <<>>)

EndKey ==
    /\ last(fmt.elements) = "Key"
    /\ lastOp \in {"write_string", "write_conditional"}
    /\ Called("end_key", <<>>)

BeginValue ==
    /\ last(fmt.elements) = "KeyValue"
    /\ Called("begin_value", <<>>)

EndValue ==
    /\ last(fmt.elements) = "Value"
    /\ lastOp \in {"write_string", "end_object"}
    /\ Called("end_value", <<>>)

WriteString ==
    /\ \/ last(fmt.elements) = "None" /\ lastOp = "none"
       \/ last(fmt.elements) = "Key" /\ lastOp = "begin_key"
       \/ last(fmt.elements) = "Value" /\ lastOp = "begin_value"
    /\ \E s \in FmtStrings : Called("write_string", s)

WriteConditional ==
    /\ last(fmt.elements) = "Key"
    /\ lastOp = "write_string"
    /\ \E c \in FmtConditions : Called("write_conditional", c)

\* comments are written one at a time
WriteLineComment ==
    /\ last(fmt.elements) \in {"None", "Object"}
    /\ lastOp # "write_line_comment"
    /\ \E c \in FmtComments : Called("write_line_comment", c)

FmtNext ==
    \/ BeginObject
    \/ EndObject
    \/ BeginKey
    \/ EndKey
    \/ BeginValue
    \/ EndValue
    \/ WriteString
    \/ WriteConditional
    \/ WriteLineComment

FmtSpec == FmtInit /\ [][FmtNext]_vars

\* what the last call appended to the writer
Written == SubSeq(out, Len(before.w) + 1, Len(out))

\* the last call only appended to the writer
Appended == Len(out) >= Len(before.w) /\ SubSeq(out, 1, Len(before.w)) = before.w

\* C9: begin_object and end_object of an object that nothing encloses write
\* nothing; begin_object of any other object appends text with exactly one
\* opening brace and no closing one, and its end_object text with exactly one
\* closing brace and no opening one.
C9_RootObjectHasNoBraces ==
    /\ lastOp = "begin_object" =>
          /\ Appended
          /\ Count(Written, "{") = (IF before.f.elements = <<>> THEN 0 ELSE 1)
          /\ Count(Written, "}") = 0
          /\ before.f.elements = <<>> => out = before.w
    /\ lastOp = "end_object" =>
          /\ Appended
          /\ Count(Written, "}") = (IF fmt.elements = <<>> THEN 0 ELSE 1)
          /\ Count(Written, "{") = 0
          /\ fmt.elements = <<>> => out = before.w

\* C9's case: an object under a key of the root object has just been closed
C9_Witness ==
    /\ lastOp = "end_object"
    /\ fmt.elements = <<"Object", "KeyValue", "Value">>
    /\ Count(out, "{") = 1
    /\ Count(out, "}") = 1
    /\ ~fmt.assert_failed

\* where the last call was made: the top of the element stack it found
Position == last(before.f.elements)

\* the last call wrote the string of a key/value pair
ValueString == lastOp = "write_string" /\ Position = "Value"

\* what write_string wrote after the separator, if it wrote one
StringWritten ==
    IF ValueString
    THEN SubSeq(Written, Len(opts.separator) + 1, Len(Written))
    ELSE Written

\* the policy the position and text of a string call for
PolicyFor(position, s) ==
    IF position = "Key"
    THEN (IF s \in {MacroBase, MacroInclude} THEN opts.quote_macro_keys ELSE opts.quote_keys)
    ELSE opts.quote_values

\* C17: a string written in a key is quoted by quote_macro_keys when it is
\* "#base" or "#include" and by quote_keys otherwise; a string written in a
\* value or with no element open is quoted by quote_values whatever its text.
C17_QuotingByPosition ==
    lastOp = "write_string" =>
        /\ StringWritten = write_string_element(<<>>, arg, PolicyFor(Position, arg))
        /\ arg \in {A1, MacroBase, MacroInclude} =>
              (Quoted(StringWritten) <=> PolicyFor(Position, arg) = "Always")

\* C17's case: "#base" written as a key under a macro policy that differs from
\* the key policy
C17_Witness ==
    /\ lastOp = "write_string"
    /\ Position = "Key"
    /\ arg = MacroBase
    /\ opts.quote_keys = "Always"
    /\ opts.quote_macro_keys = "WhenRequired"
    /\ Written = MacroBase

\* C19: the string of a key/value pair is written as the separator followed
\* by the string; a key, a plain string, begin_value, the opening brace of an
\* object value and a conditional are written without it, so that a separator
\* that no other text contains occurs once per value string and nowhere else.
C19_SeparatorBeforeValueStrings ==
    /\ Appended
    /\ ValueString =>
          /\ Len(Written) >= Len(opts.separator)
          /\ SubSeq(Written, 1, Len(opts.separator)) = opts.separator
    /\ lastOp = "write_string" => Body(StringWritten) = EscapedText(arg)
    /\ lastOp = "begin_value" => Written = <<>>
    /\ (lastOp = "begin_object" /\ Position = "Value") =>
          Written \in {<<SPACE, "{", NEWLINE>>,
                       <<NEWLINE>> \o Repeat(opts.indent, before.f.indent_level)
                           \o <<"{", NEWLINE>>}
    /\ lastOp = "write_conditional" => Written = <<SPACE, "[">> \o arg \o <<"]">>
    /\ opts.separator = <<":", SPACE>> =>
          Count(Written, ":") = (IF ValueString THEN 1 ELSE 0)

\* C19's case: a value string has been written after the separator ": "
C19_Witness ==
    /\ ValueString
    /\ opts.separator = <<":", SPACE>>
    /\ opts.quote_values = "WhenRequired"
    /\ arg = A1
    /\ Written = <<":", SPACE, "a">>

\* text ends with suffix
EndsWith(text, suffix) ==
    /\ Len(text) >= Len(suffix)
    /\ SubSeq(text, Len(text) - Len(suffix) + 1, Len(text)) = suffix

\* the text write_string writes for the key s
KeyWritten(s) == write_string_element(<<>>, s, PolicyFor("Key", s))

\* C21: write_conditional called after the key's write_string appends a
\* space, '[', the tag exactly as given and ']' right behind the text of the
\* key, on its line; it changes neither the text already written nor the
\* state of the formatter, so the key keeps its quoting and the value that
\* follows is written as it would be without the tag.
C21_ConditionalAfterKey ==
    lastOp = "write_conditional" =>
        /\ Appended
        /\ Written = <<SPACE, "[">> \o arg \o <<"]">>
        /\ Count(Written, NEWLINE) = 0
        /\ \E s \in FmtStrings : EndsWith(before.w, KeyWritten(s))
        /\ fmt = before.f
        /\ write_string(begin_value(end_key(fmt, out).f, out).f, <<>>, A1).w
              = write_string(begin_value(end_key(before.f, out).f, out).f, <<>>, A1).w

\* C21's case: a tag holding a quote written behind a quoted key
C21_Witness ==
    /\ lastOp = "write_conditional"
    /\ arg = <<"$", QUOTE>>
    /\ opts.quote_keys = "Always"
    /\ EndsWith(before.w, <<QUOTE, "a", QUOTE>>)
    /\ EndsWith(out, <<QUOTE, "a", QUOTE, SPACE, "[", "$", QUOTE, "]">>)
    /\ ~fmt.assert_failed

\* what the last call appended to the twin's writer
TwinWritten == SubSeq(twin.w, Len(twin.before_w) + 1, Len(twin.w))

\* the output of the formatter, of the two, that has the given brace style
OutputOf(style) == IF opts.brace_style = style THEN out ELSE twin.w
WrittenOf(style) == IF opts.brace_style = style THEN Written ELSE TwinWritten

\* text without its leading spaces
RECURSIVE SkipSpaces(_)
SkipSpaces(text) ==
    IF text # <<>> /\ Head(text) = SPACE THEN SkipSpaces(Tail(text)) ELSE text

\* text begins with the end of a line, indentation and a brace that ends a line
OpensOnNextLine(text) ==
    /\ text # <<>>
    /\ Head(text) = NEWLINE
    /\ Len(SkipSpaces(Tail(text))) >= 2
    /\ SkipSpaces(Tail(text))[1] = "{"
    /\ SkipSpaces(Tail(text))[2] = NEWLINE

\* Allman text with every opening brace moved to the end of the line before it
RECURSIVE ToKAndR(_)
ToKAndR(text) ==
    IF text = <<>> THEN <<>>
    ELSE IF OpensOnNextLine(text)
         THEN <<SPACE, "{">> \o ToKAndR(Tail(SkipSpaces(Tail(text))))
         ELSE <<Head(text)>> \o ToKAndR(Tail(text))

\* C20: given the same calls, the two brace styles leave their formatters in
\* the same state and write the same text except for the opening brace of each
\* object that is not the root: a space and '{' in K&R, a newline, the
\* indentation of the key and '{' in Allman; a closing brace starts a line, at
\* the indentation of the key of its object, in both.
C20_BraceStylesDifferAtOpeningBraces ==
    /\ twin.f.elements = fmt.elements
    /\ twin.f.indent_level = fmt.indent_level
    /\ ToKAndR(OutputOf("Allman")) = OutputOf("KAndR")
    /\ (lastOp = "begin_object" /\ before.f.elements # <<>>) =>
          /\ WrittenOf("KAndR") = <<SPACE, "{", NEWLINE>>
          /\ WrittenOf("Allman") =
                <<NEWLINE>> \o Repeat(opts.indent, before.f.indent_level)
                \o <<"{", NEWLINE>>
    /\ ~(lastOp = "begin_object" /\ before.f.elements # <<>>) => Written = TwinWritten
    /\ (lastOp = "end_object" /\ fmt.elements # <<>>) =>
          /\ Written = Repeat(opts.indent, fmt.indent_level) \o <<"}">>
          /\ before.w[Len(before.w)] = NEWLINE

\* C20's case: an object two levels below the root has been opened, the brace
\* under the indented key
C20_Witness ==
    /\ lastOp = "begin_object"
    /\ before.f.indent_level = 1
    /\ opts.brace_style = "Allman"
    /\ Written = <<NEWLINE>> \o opts.indent \o <<"{", NEWLINE>>
    /\ TwinWritten = <<SPACE, "{", NEWLINE>>

(***************************************************************************)
(* ValueVisitor::visit_map (lib.rs): an Object built from the entries a     *)
(* MapAccess gives one at a time.  An Object is a function from the keys it *)
(* holds to the list of values of each.                                    *)
(***************************************************************************)
\* the entries a MapAccess gives: (String, Value) pairs
VisitEntries == {Field(k, x) : k \in {K1, K2}, x \in {Str(A1), Str(K1)}}

\* match obj.entry(key) with one value for the key, whatever it held
entry_overwritten(o, key, x) ==
    [k \in DOMAIN o \cup {key} |-> IF k = key THEN <<x>> ELSE o[k]]

\* match obj.entry(key): push on Occupied, insert vec![value] on Vacant
entry(o, key, x) ==
    IF key \in DOMAIN o
    THEN [o EXCEPT ![key] = Append(@, x)]
    ELSE [k \in DOMAIN o \cup {key} |-> IF k = key THEN <<x>> ELSE o[k]]

VisitInit ==
    /\ opts = DefaultOpts
    /\ value = None
    /\ ser = new(<<>>, IdleFormatter)
    /\ pc = "visiting"
    /\ fmt = IdleFormatter
    /\ out = <<>>
    /\ calls = 0
    /\ lastOp = "none"
    /\ before = [f |-> IdleFormatter, w |-> <<>>]
    /\ arg = <<>>
    /\ twin = [f |-> IdleFormatter, w |-> <<>>, before_w |-> <<>>]
    /\ map \in SeqsUpTo(VisitEntries, MaxEntries)
    /\ obj = <<>>
    /\ read = <<>>
    /\ enc = <<>>
    /\ NoWrites

\* map.next_entry()? gave Some((key, value))
VisitEntry ==
    /\ pc = "visiting"
    /\ map # <<>>
    /\ obj' = entry(obj, Head(map).key, Head(map).value)
    /\ read' = Append(read, Head(map))
    /\ map' = Tail(map)
    /\ UNCHANGED <<opts, value, ser, pc, fmt, out, calls, lastOp, before, arg, twin, enc, writes>>

\* map.next_entry()? gave None: Ok(Value::Object(obj))
VisitEnd ==
    /\ pc = "visiting"
    /\ map = <<>>
    /\ pc' = "visited"
    /\ UNCHANGED <<opts, value, ser, fmt, out, calls, lastOp, before, arg, twin>>
    /\ UNCHANGED <<map, obj, read, enc, writes>>

\* map.next_entry()? gave Err(e), which visit_map returns
VisitFail ==
    /\ pc = "visiting"
    /\ pc' = "failed"
    /\ UNCHANGED <<opts, value, ser, fmt, out, calls, lastOp, before, arg, twin>>
    /\ UNCHANGED <<map, obj, read, enc, writes>>

VisitNext ==
    \/ VisitEntry
    \/ VisitEnd
    \/ VisitFail

VisitSpec == VisitInit /\ [][VisitNext]_vars

\* the values of the entries with key k, in the order of the entries
RECURSIVE ValuesUnder(_, _)
ValuesUnder(k, entries) ==
    IF entries = <<>> THEN <<>>
    ELSE (IF Head(entries).key = k THEN <<Head(entries).value>> ELSE <<>>)
         \o ValuesUnder(k, Tail(entries))

\* the number of values the lists of the keys in S hold
RECURSIVE Stored(_, _)
Stored(o, S) ==
    IF S = {} THEN 0
    ELSE LET k == CHOOSE x \in S : TRUE
         IN  Len(o[k]) + Stored(o, S \ {k})

\* C27: the object built from a stream of entries holds, for each key read,
\* the values of the entries with that key in the order they were read: an
\* entry with a key already held is appended to its list; the lists hold as
\* many values as entries were read and none is empty.
C27_EntriesAppended ==
    /\ DOMAIN obj = {read[i].key : i \in 1..Len(read)}
    /\ \A k \in DOMAIN obj : obj[k] # <<>> /\ obj[k] = ValuesUnder(k, read)
    /\ Stored(obj, DOMAIN obj) = Len(read)
    /\ pc = "visited" => map = <<>>

\* C27's case: a key met again after another key
C27_Witness ==
    /\ pc = "visited"
    /\ read = <<Field(K1, Str(A1)), Field(K2, Str(A1)), Field(K1, Str(K1))>>
    /\ DOMAIN obj = {K1, K2}
    /\ obj[K1] = <<Str(A1), Str(K1)>>
    /\ obj[K2] = <<Str(A1)>>

(***************************************************************************)
(* Encode calls side by side.  Each call has the value it encodes, a       *)
(* Serializer of its own over its own writer and PrettyFormatter, and the  *)
(* fields its struct has yet to hand over; the calls take their steps      *)
(* (serialize_struct, one serialize_field, end) in any order.              *)
(***************************************************************************)
\* the structs encoded side by side
ConcValues ==
    {Struct(<<>>), Struct(<<Field(K1, Str(A1))>>),
     Struct(<<Field(K1, Struct(<<Field(K2, Str(A1))>>)), Field(K2, Str(<<>>))>>),
     Struct(<<Field(K1, Float(FALSE, NaN)), Field(K2, Str(A1))>>)}

\* the options of the calls
ConcOpts == {DefaultOpts, [DefaultOpts EXCEPT !.brace_style = "KAndR",
                                              !.quote_keys = "WhenRequired"]}

\* a call before its first step
Call(o, x) == [value |-> x, ser |-> new(<<>>, with_opts(o)), todo |-> x.v, pc |-> "ready"]

\* a self taken from one call whichever call steps
self_of_first(e, i) == e[1].ser

\* &mut self of call i: the Serializer the call was given
self(e, i) == e[i].ser

ConcInit ==
    /\ opts = DefaultOpts
    /\ value = None
    /\ ser = new(<<>>, IdleFormatter)
    /\ pc = "calls"
    /\ fmt = IdleFormatter
    /\ out = <<>>
    /\ calls = 0
    /\ lastOp = "none"
    /\ before = [f |-> IdleFormatter, w |-> <<>>]
    /\ arg = <<>>
    /\ twin = [f |-> IdleFormatter, w |-> <<>>, before_w |-> <<>>]
    /\ NoVisit
    /\ enc \in [1..MaxEncoders -> {Call(o, x) : o \in ConcOpts, x \in ConcValues}]
    /\ NoWrites

\* serializer.serialize_struct(name, len)?
StructBegin(i) ==
    /\ enc[i].pc = "ready"
    /\ enc' = [enc EXCEPT ![i].ser = serialize_struct(self(enc, i)),
                          ![i].pc = "fields"]
    /\ UNCHANGED <<opts, value, ser, pc, fmt, out, calls, lastOp, before, arg, twin>>
    /\ UNCHANGED <<map, obj, read, writes>>

\* state.serialize_field(key, &self.field)?
StructField(i) ==
    /\ enc[i].pc = "fields"
    /\ ok(enc[i].ser)
    /\ enc[i].todo # <<>>
    /\ enc' = [enc EXCEPT ![i].ser = serialize_field(self(enc, i), Head(enc[i].todo).key,
                                                     Head(enc[i].todo).value),
                          ![i].todo = Tail(@)]
    /\ UNCHANGED <<opts, value, ser, pc, fmt, out, calls, lastOp, before, arg, twin>>
    /\ UNCHANGED <<map, obj, read, writes>>

\* state.end(), or the return of the first Err
StructEnd(i) ==
    /\ enc[i].pc = "fields"
    /\ enc[i].todo = <<>> \/ ~ok(enc[i].ser)
    /\ enc' = [enc EXCEPT ![i].ser = IF ok(enc[i].ser) THEN struct_end(self(enc, i)) ELSE @,
                          ![i].pc = "done"]
    /\ UNCHANGED <<opts, value, ser, pc, fmt, out, calls, lastOp, before, arg, twin>>
    /\ UNCHANGED <<map, obj, read, writes>>

ConcNext ==
    \E i \in 1..MaxEncoders :
        \/ StructBegin(i)
        \/ StructField(i)
        \/ StructEnd(i)

ConcSpec == ConcInit /\ [][ConcNext]_vars

\* what call i returns and leaves behind when it is the only call
Alone(i) == Serialize(new(<<>>, with_opts(enc[i].ser.formatter.opts)), enc[i].value)

MaxAnyCalls == 6

\* the operations of the Formatter trait
Operations ==
    {"begin_object", "end_object", "begin_key", "end_key", "begin_value", "end_value",
     "write_string", "write_conditional", "write_line_comment"}

\* the arguments op is called with
ArgumentsOf(op) ==
    CASE op = "write_string" -> {A1}
      [] op = "write_conditional" -> FmtConditions
      [] op = "write_line_comment" -> FmtComments
      [] OTHER -> {<<>>}

\* the default options in either brace style
AnyOpts == {[DefaultOpts EXCEPT !.brace_style = b] : b \in BraceStyle}

AnyInit ==
    /\ opts \in AnyOpts
    /\ value = None
    /\ ser = new(<<>>, with_opts(opts))
    /\ pc = "idle"
    /\ fmt = with_opts(opts)
    /\ out = <<>>
    /\ calls = 0
    /\ lastOp = "none"
    /\ before = [f |-> with_opts(opts), w |-> <<>>]
    /\ arg = <<>>
    /\ twin = [f |-> TwinFormatter, w |-> <<>>, before_w |-> <<>>]
    /\ NoVisit
    /\ enc = <<>>
    /\ NoWrites

AnyCall ==
    /\ ~fmt.panic
    /\ calls < MaxAnyCalls
    /\ \E op \in Operations : \E a \in ArgumentsOf(op) : Called(op, a)

AnySpec == AnyInit /\ [][AnyCall]_vars

\* max(indent_level, 0) copies of the indent
Margin == Repeat(fmt.opts.indent, IF fmt.indent_level > 0 THEN fmt.indent_level ELSE 0)

\* C37: after any sequence of formatter calls indent_level is the number of
\* Object entries on the element stack minus one, so -1 exactly when no object is
\* open and never less; a key begins with, and a line comment and a closing
\* brace are written after, exactly max(indent_level, 0) copies of the indent.
C37_IndentFollowsOpenObjects ==
    /\ fmt.indent_level = Count(fmt.elements, "Object") - 1
    /\ fmt.indent_level >= -1
    /\ fmt.indent_level = -1 <=> \A i \in 1..Len(fmt.elements) : fmt.elements[i] # "Object"
    /\ Appended
    /\ lastOp = "begin_key" => Written = Margin
    /\ lastOp = "write_line_comment" =>
            Written = Margin \o <<"/", "/", SPACE>> \o arg \o <<NEWLINE>>
    /\ (lastOp = "end_object" /\ Written # <<>>) => Written = Margin \o <<"}">>

\* a key has been begun with two objects open: one indent
C37_Witness ==
    /\ lastOp = "begin_key"
    /\ fmt.elements = <<"Object", "Object", "KeyValue", "Key">>
    /\ fmt.indent_level = 1
    /\ Written = fmt.opts.indent

\* an object in an open object has been ended: one indent and the brace
C37_ClosingBraceIndented ==
    /\ lastOp = "end_object"
    /\ fmt.indent_level = 1
    /\ Written = fmt.opts.indent \o <<"}">>

(***************************************************************************)
(* The two string writers on one string: write_string_element of           *)
(* formatter.rs and the serialize_str of ser.rs, which hands fragments and *)
(* escape sequences to the formatter of ser.rs.                            *)
(***************************************************************************)
MaxTextLen == 4

\* enum EscapeSequence of ser.rs
EscapeSequence == {"NewLine", "Tab", "Backslash", "Quote"}

\* Formatter::write_escape_sequence of ser.rs: the text written
write_escape_sequence(escape) ==
    CASE escape = "NewLine" -> <<BACKSLASH, "n">>
      [] escape = "Tab" -> <<BACKSLASH, "t">>
      [] escape = "Backslash" -> <<BACKSLASH, BACKSLASH>>
      [] escape = "Quote" -> <<BACKSLASH, QUOTE>>

\* Formatter::write_fragment of ser.rs: the text written
write_fragment(fragment) == fragment

\* PrettyFormatter::begin_string and end_string of ser.rs: the text written
begin_string == <<SPACE, QUOTE>>
end_string == <<QUOTE, NEWLINE>>

\* the EscapeSequence the loop of serialize_str picks for a matched character
escape_sequence_of(c) ==
    CASE c = TAB -> "Tab"
      [] c = NEWLINE -> "NewLine"
      [] c = BACKSLASH -> "Backslash"
      [] c = QUOTE -> "Quote"

\* a formatter call and the text it writes
FormatterCall(op, text) == [op |-> op, text |-> text]

\* the loop of the serialize_str of ser.rs and its trailing fragment, as the
\* formatter calls made: start is the first character not yet written, idx the
\* position match_indices looks at next
RECURSIVE fragments_and_escapes(_, _, _)
fragments_and_escapes(v, start, idx) ==
    IF idx > Len(v)
    THEN IF start <= Len(v)
         THEN <<FormatterCall("write_fragment", write_fragment(SubSeq(v, start, Len(v))))>>
         ELSE <<>>
    ELSE IF v[idx] \in {TAB, NEWLINE, BACKSLASH, QUOTE}
         THEN (IF start # idx
               THEN <<FormatterCall("write_fragment",
                                    write_fragment(SubSeq(v, start, idx - 1)))>>
               ELSE <<>>)
              \o <<FormatterCall("write_escape_sequence",
                                 write_escape_sequence(escape_sequence_of(v[idx])))>>
              \o fragments_and_escapes(v, idx + 1, idx + 1)
         ELSE fragments_and_escapes(v, start, idx + 1)

\* Serializer::serialize_str of ser.rs: the formatter calls it makes
ser_rs_serialize_str(v) ==
    <<FormatterCall("begin_string", begin_string)>>
    \o fragments_and_escapes(v, 1, 1)
    \o <<FormatterCall("end_string", end_string)>>

\* the strings handed to the two: plain, escaped and quoted characters
TextAlphabet == {"a", "b", TAB, NEWLINE, BACKSLASH, QUOTE}
Texts == SeqsUpTo(TextAlphabet, MaxTextLen)

StrInit ==
    /\ opts \in {[DefaultOpts EXCEPT !.quote_values = q] : q \in Quoting}
    /\ value \in {Str(s) : s \in Texts}
    /\ ser = new(<<>>, with_opts(opts))
    /\ pc = "idle"
    /\ fmt = with_opts(opts)
    /\ out = <<>>
    /\ calls = 0
    /\ lastOp = "none"
    /\ before = [f |-> with_opts(opts), w |-> <<>>]
    /\ arg = <<>>
    /\ twin = [f |-> TwinFormatter, w |-> <<>>, before_w |-> <<>>]
    /\ NoVisit
    /\ enc = <<>>
    /\ NoWrites

\* the string is written by write_string_element and by the serialize_str of
\* ser.rs
WriteStr ==
    /\ pc = "idle"
    /\ pc' = "done"
    /\ out' = write_string_element(out, value.v, opts.quote_values)
    /\ writes' = [new |-> fragment_writes(value.v, 1, 1),
                  old |-> ser_rs_serialize_str(value.v)]
    /\ UNCHANGED <<opts, value, ser, fmt, calls, lastOp, before, arg, twin>>
    /\ UNCHANGED <<map, obj, read, enc>>

StrSpec == StrInit /\ [][WriteStr]_vars

\* a write is an escape sequence
IsEscape(text) == \E c \in EscapedChars : text = escaped(c)

\* the fragments and escapes of the serialize_str of ser.rs, as texts
OldWrites ==
    [i \in 1..(Len(writes.old) - 2) |-> writes.old[i + 1].text]

\* no text is empty, and no two fragments are next to each other
MaximalRuns(texts) ==
    /\ \A i \in 1..Len(texts) : texts[i] # <<>>
    /\ \A i \in 1..(Len(texts) - 1) : IsEscape(texts[i]) \/ IsEscape(texts[i + 1])
    /\ \A i \in 1..Len(texts) :
            ~IsEscape(texts[i]) => \A j \in 1..Len(texts[i]) : texts[i][j] \notin EscapedChars

\* C39: the text that is not escaped is copied in maximal runs: neither string
\* writer writes an empty fragment, between two fragment writes there is at
\* least one escape write, and the concatenation of the writes is the same for
\* the serialize_str of ser.rs and for write_string_element, which writes it
\* between its quotes.
C39_FragmentsAreMaximalRuns ==
    pc = "done" =>
        /\ MaximalRuns(writes.new)
        /\ MaximalRuns(OldWrites)
        /\ \A i \in 1..Len(OldWrites) :
                IsEscape(OldWrites[i]) <=> writes.old[i + 1].op = "write_escape_sequence"
        /\ Flatten(writes.new) = Flatten(OldWrites)
        /\ writes.new = OldWrites
        /\ out = (IF Quoted(out) THEN <<QUOTE>> ELSE <<>>) \o Flatten(OldWrites)
                  \o (IF Quoted(out) THEN <<QUOTE>> ELSE <<>>)

\* a run of two characters, an escape and a run of one have been written
C39_Witness ==
    /\ pc = "done"
    /\ value = Str(<<"a", "b", TAB, "a">>)
    /\ writes.new = << <<"a", "b">>, <<BACKSLASH, "t">>, <<"a">> >>
    /\ Len(writes.old) = 5

====
